---- MODULE Spec2Model ----
(***************************************************************************)
(* JSON ingestion and synchronisation pipeline of the VS Code extension    *)
(* stats service: the unprocessed-file resolver (app/fetch_endpoint.py),   *)
(* the HTTP ingestor and the auto-sync orchestrator (app/main.py) and the  *)
(* standalone batch ingestor (ingest.py), over one data directory, one     *)
(* archive directory and the extension_stats table.                        *)
(*                                                                         *)
(* Time is counted in hours.  An aware datetime is a record [wall, off]    *)
(* (wall-clock reading and UTC offset); its absolute instant is wall-off.  *)
(* The table column captured_at is TIMESTAMPTZ and keeps the instant only. *)
(***************************************************************************)
EXTENDS Integers, Sequences, FiniteSets, Bags, TLC

VARIABLES dataDir, archive, table, now, proc, opsLeft, prevFailed, crashedFiles, ingestLog,
          fetchLog

vars == <<dataDir, archive, table, now, proc, opsLeft, prevFailed, crashedFiles, ingestLog,
          fetchLog>>

(* ------------------------------ bounds --------------------------------- *)

\* number of *.json files the data directory holds at the start
MaxFiles == 1
\* number of operations (requests, batch runs) started in one behaviour
MaxOps == 2
\* number of hours the clock advances in one behaviour
MaxTicks == 1
\* number of concurrently running requests / batch runs
NProcs == 2
\* number of extensions the marketplace is asked for per page (100 in
\* get_all_ai_extensions)
page_size == 2
\* number of full pages the marketplace serves before it runs out
MaxPages == 3

(* --------------------------- program constants -------------------------- *)

\* PST = timezone(timedelta(hours=-8))
PST == 0 - 8
\* offset of America/Los_Angeles while daylight saving time is in force
PDT == 0 - 7
\* first instant of daylight saving time inside the modelled window
DstStart == 30
\* clock reading of the first state
NowStart == 29
MaxTime == NowStart + MaxTicks
BATCH_SIZE == 500

NoTs == 0 - 1
NoFile == ""
SENTINEL == "last_fetched.json"
VALID_CLIENT_KEYS == {"550e8400-e29b-41d4-a716-446655440000"}

(* ------------------------------ datetimes ------------------------------- *)

Instant(dt) == dt.wall - dt.off

\* ZoneInfo("America/Los_Angeles").utcoffset of an absolute instant
PacificOffsetAt(inst) == IF inst < DstStart THEN PST ELSE PDT

\* ZoneInfo("America/Los_Angeles").utcoffset of a naive wall reading (fold = 0:
\* a reading inside the spring-forward gap takes the offset before the gap)
PacificOffsetOfWall(w) == IF w < DstStart + PDT THEN PST ELSE PDT

\* dt.replace(tzinfo=PACIFIC_TZ) applied to a datetime that carries an offset
ReplacePacific(dt) ==
    [wall |-> dt.wall, off |-> PacificOffsetOfWall(dt.wall)]

\* dt.astimezone(PACIFIC_TZ)
AsPacific(dt) ==
    [wall |-> Instant(dt) + PacificOffsetAt(Instant(dt)), off |-> PacificOffsetAt(Instant(dt))]

\* dt.replace(tzinfo=PACIFIC_TZ) of a naive reading
TagPacific(w) == [wall |-> w, off |-> PacificOffsetOfWall(w)]

\* datetime.now(PACIFIC_TZ) when the clock reads t
NowPacific(t) == [wall |-> t + PacificOffsetAt(t), off |-> PacificOffsetAt(t)]

\* datetime.fromtimestamp(st_mtime, tz=PST)
FromMtime(m) == [wall |-> m + PST, off |-> PST]

(* --------------------------- snapshot files ----------------------------- *)

Aware(w, o) == [kind |-> "aware", wall |-> w, off |-> o]
Naive(w) == [kind |-> "naive", wall |-> w, off |-> 0]
Missing == [kind |-> "missing", wall |-> 0, off |-> 0]
Garbage == [kind |-> "garbage", wall |-> 0, off |-> 0]

Ext(id, n) == [extension_id |-> id, install_count |-> n]

\* an element of the items list that is not a JSON object (a number, a string)
NotAnObject == [scalar |-> "n/a"]

\* the element has .get: it is a dict
IsObject(ext) == "extension_id" \in DOMAIN ext

File(j, c, s, it, m) == [json |-> j, created |-> c, shape |-> s, items |-> it, mtime |-> m]

\* last_fetched.json as create_last_fetched_file writes it when the clock reads t
SentinelFile(t) ==
    [json |-> "ok", created |-> Missing, shape |-> "other", items |-> << >>,
     mtime |-> t, unix_timestamp |-> t]

\* the names strftime("%Y-%m-%d-%H-%M-%S.json") gives at the clock readings
\* NowStart, NowStart + 1, ...
FetchedOrder ==
    << "2025-13.json", "2025-14.json", "2025-15.json", "2025-16.json",
       "2025-17.json", "2025-18.json", "2025-19.json", "2025-20.json",
       "2025-21.json", "2025-22.json" >>

FetchedName(t) == FetchedOrder[t - NowStart + 1]

\* every *.json name of the model, in the order sorted(glob.glob(...)) gives
NameOrder ==
    << "2025-01.json", "2025-02.json", "2025-02b.json", "2025-03.json",
       "2025-04.json", "2025-05.json", "2025-06.json", "2025-07.json",
       "2025-08.json" >>
    \o FetchedOrder \o << "data.json", "last_fetched.json" >>

\* the files found in the data directory before the first request
WrittenNames ==
    { "2025-01.json", "2025-02.json", "2025-02b.json", "2025-03.json",
      "2025-04.json", "data.json", "last_fetched.json" }

\* snapshots of further shapes: three records, a bare top-level list
ShapeNames == { "2025-02b.json", "2025-05.json", "2025-06.json" }

\* snapshots the HTTP endpoints are given while single inserts fail: a sound
\* one, one without offset, one whose second item is not an object, and a
\* sound one of the same capture time as the latter
FaultNames == { "2025-02.json", "2025-03.json", "2025-07.json", "2025-08.json" }

AllNames == {NameOrder[i] : i \in 1..Len(NameOrder)}

SnapshotNames == AllNames \ {SENTINEL}

\* datetime.strptime(stem, "%Y-%m-%d-%H-%M-%S"): the wall reading a file name
\* encodes, NoTs when the name does not follow the pattern
NameWall(name) ==
    CASE name = "2025-01.json" -> 9
      [] name = "2025-02.json" -> 10
      [] name = "2025-03.json" -> 11
      [] name = "2025-04.json" -> 12
      [] name = "2025-05.json" -> 13
      [] name = "2025-06.json" -> 14
      [] name = "2025-07.json" -> 15
      [] name = "2025-08.json" -> 16
      [] \E i \in 1..Len(FetchedOrder) : FetchedOrder[i] = name ->
            (CHOOSE i \in 1..Len(FetchedOrder) : FetchedOrder[i] = name)
               + NowStart - 1 + PST
      [] OTHER -> NoTs

\* the content a file of each name is written with
Fixture(name) ==
    CASE name = "2025-01.json" ->
            File("ok", Aware(9, PST), "other", << >>, 17)
      [] name = "2025-02.json" ->
            File("ok", Aware(10, PST), "items", <<Ext("e1", 10), Ext("e2", 20)>>, 18)
      [] name = "2025-02b.json" ->
            File("ok", Aware(18, 0), "items", <<Ext("e1", 11), Ext("e1", 12)>>, 18)
      [] name = "2025-03.json" ->
            File("ok", Naive(11), "items", <<Ext("e1", 12)>>, 19)
      [] name = "2025-04.json" ->
            File("ok", Missing, "items", <<Ext("e2", 21)>>, 20)
      [] name = "2025-05.json" ->
            File("ok", Aware(18, 0), "items",
                 <<Ext("e1", 13), Ext("e2", 23), Ext("e3", 33)>>, 18)
      [] name = "2025-06.json" ->
            File("ok", Missing, "list", <<Ext("e3", 30)>>, 21)
      [] name = "2025-07.json" ->
            File("ok", Aware(12, PST), "items",
                 <<Ext("e1", 15), NotAnObject, Ext("e2", 25)>>, 22)
      [] name = "2025-08.json" ->
            File("ok", Aware(12, PST), "items", <<Ext("e3", 35)>>, 22)
      [] name = "data.json" ->
            File("invalid", Missing, "other", << >>, 16)
      [] OTHER ->
            SentinelFile(23)

Exists(name) == name \in DOMAIN dataDir

\* the code points of a file name, which is what sorted() compares (the
\* directory part of the paths is the same for all)
Codes(name) ==
    CASE name = "2025-01.json" ->
            <<50, 48, 50, 53, 45, 48, 49, 46, 106, 115, 111, 110>>
      [] name = "2025-02.json" ->
            <<50, 48, 50, 53, 45, 48, 50, 46, 106, 115, 111, 110>>
      [] name = "2025-02b.json" ->
            <<50, 48, 50, 53, 45, 48, 50, 98, 46, 106, 115, 111, 110>>
      [] name = "2025-03.json" ->
            <<50, 48, 50, 53, 45, 48, 51, 46, 106, 115, 111, 110>>
      [] name = "2025-04.json" ->
            <<50, 48, 50, 53, 45, 48, 52, 46, 106, 115, 111, 110>>
      [] name = "2025-05.json" ->
            <<50, 48, 50, 53, 45, 48, 53, 46, 106, 115, 111, 110>>
      [] name = "2025-06.json" ->
            <<50, 48, 50, 53, 45, 48, 54, 46, 106, 115, 111, 110>>
      [] name = "2025-07.json" ->
            <<50, 48, 50, 53, 45, 48, 55, 46, 106, 115, 111, 110>>
      [] name = "2025-08.json" ->
            <<50, 48, 50, 53, 45, 48, 56, 46, 106, 115, 111, 110>>
      [] name = "2025-13.json" ->
            <<50, 48, 50, 53, 45, 49, 51, 46, 106, 115, 111, 110>>
      [] name = "2025-14.json" ->
            <<50, 48, 50, 53, 45, 49, 52, 46, 106, 115, 111, 110>>
      [] name = "2025-15.json" ->
            <<50, 48, 50, 53, 45, 49, 53, 46, 106, 115, 111, 110>>
      [] name = "2025-16.json" ->
            <<50, 48, 50, 53, 45, 49, 54, 46, 106, 115, 111, 110>>
      [] name = "2025-17.json" ->
            <<50, 48, 50, 53, 45, 49, 55, 46, 106, 115, 111, 110>>
      [] name = "2025-18.json" ->
            <<50, 48, 50, 53, 45, 49, 56, 46, 106, 115, 111, 110>>
      [] name = "2025-19.json" ->
            <<50, 48, 50, 53, 45, 49, 57, 46, 106, 115, 111, 110>>
      [] name = "2025-20.json" ->
            <<50, 48, 50, 53, 45, 50, 48, 46, 106, 115, 111, 110>>
      [] name = "2025-21.json" ->
            <<50, 48, 50, 53, 45, 50, 49, 46, 106, 115, 111, 110>>
      [] name = "2025-22.json" ->
            <<50, 48, 50, 53, 45, 50, 50, 46, 106, 115, 111, 110>>
      [] name = "data.json" ->
            <<100, 97, 116, 97, 46, 106, 115, 111, 110>>
      [] name = "last_fetched.json" ->
            <<108, 97, 115, 116, 95, 102, 101, 116, 99, 104, 101, 100, 46, 106, 115, 111, 110>>

\* s < t for two strings given by their code points
RECURSIVE LexLess(_, _)
LexLess(s, t) ==
    IF t = << >> THEN FALSE
    ELSE IF s = << >> THEN TRUE
    ELSE \/ Head(s) < Head(t)
         \/ Head(s) = Head(t) /\ LexLess(Tail(s), Tail(t))

\* glob.glob(...) without sorted(): the directory order, here the reverse
GlobUnsorted(present) ==
    LET sorted == SelectSeq(NameOrder, LAMBDA name : name \in present) IN
    [i \in 1..Len(sorted) |-> sorted[Len(sorted) + 1 - i]]

\* sorted(glob.glob(str(dir / "*.json"))) over a set of present names
SortedGlob(present) == SelectSeq(NameOrder, LAMBDA name : name \in present)

Range(s) == {s[i] : i \in 1..Len(s)}

(* ---------------------------- the stats table --------------------------- *)

Row(ext, captured) ==
    [extension_id |-> ext.extension_id, captured_at |-> captured,
     install_count |-> ext.install_count]

Key(r) == <<r.extension_id, r.captured_at>>

\* number of rows of a bag carrying the key k
KeyCount(t, k) ==
    BagCardinality([r \in {x \in BagToSet(t) : Key(x) = k} |-> t[r]])

\* INSERT ... ON CONFLICT (extension_id, captured_at) DO NOTHING: cur.rowcount
InsertRowcount(t, r) == IF KeyCount(t, Key(r)) > 0 THEN 0 ELSE 1

\* an INSERT without the ON CONFLICT clause on a table without the constraint
InsertAlways(t, r) == t (+) SetToBag({r})

\* an INSERT ... ON CONFLICT (extension_id, captured_at) DO UPDATE: the row of
\* the key is replaced
InsertOnConflictDoUpdate(t, r) ==
    [x \in {y \in BagToSet(t) : Key(y) # Key(r)} |-> t[x]] (+) SetToBag({r})

\* INSERT ... ON CONFLICT (extension_id, captured_at) DO NOTHING: the table after
InsertOnConflictDoNothing(t, r) ==
    IF KeyCount(t, Key(r)) > 0 THEN t ELSE t (+) SetToBag({r})

\* the check with "> 1" in place of "> 0"
CheckTimestampExistsTwice(t, captured) ==
    BagCardinality([r \in {x \in BagToSet(t) : x.captured_at = captured} |-> t[r]]) > 1

\* SELECT COUNT(*) ... WHERE captured_at = %s  > 0
check_timestamp_exists(t, captured) ==
    \E r \in BagToSet(t) : r.captured_at = captured

\* SELECT MAX(captured_at): None (NoTs) on an empty table
get_latest_db_timestamp(t) ==
    IF BagToSet(t) = {} THEN NoTs
    ELSE CHOOSE m \in {r.captured_at : r \in BagToSet(t)} :
            \A r \in BagToSet(t) : r.captured_at <= m

(* ------------------------- timestamp extraction ------------------------- *)

Ok(dt) == [ok |-> TRUE, err |-> "", dt |-> dt]
Raise(e) == [ok |-> FALSE, err |-> e, dt |-> [wall |-> 0, off |-> 0]]

\* app/main.py parse_timestamp_from_json on loaded JSON: a top-level list has
\* no .get (AttributeError, not caught here); a missing, empty or unparsable
\* created_at raises ValueError
StrictTimestamp(c) ==
    IF c.shape = "list" THEN Raise("AttributeError")
    ELSE IF c.created.kind \in {"missing", "garbage"} THEN Raise("ValueError")
    ELSE IF c.created.kind = "aware"
         THEN Ok(AsPacific([wall |-> c.created.wall, off |-> c.created.off]))
         ELSE Ok(TagPacific(c.created.wall))

\* ingest.py parse_timestamp_from_json: the same, except that a missing or
\* unparsable created_at returns datetime.now(PACIFIC_TZ); t is the clock then
BatchTimestamp(c, t) ==
    IF c.shape = "list" THEN Raise("AttributeError")
    ELSE IF c.created.kind \in {"missing", "garbage"} THEN Ok(NowPacific(t))
    ELSE IF c.created.kind = "aware"
         THEN Ok(AsPacific([wall |-> c.created.wall, off |-> c.created.off]))
         ELSE Ok(TagPacific(c.created.wall))

\* app/fetch_endpoint.py parse_json_file_timestamp. The result is
\* [aware, wall, off]: an offset-less created_at comes back naive. Never raises
\* for a file on disk.
LenientTimestamp(name, c) ==
    IF c.json = "invalid" \/ c.shape = "list" \/ c.created.kind = "garbage"
    THEN [aware |-> TRUE, wall |-> FromMtime(c.mtime).wall, off |-> PST]
    ELSE IF c.created.kind = "missing"
         THEN IF NameWall(name) # NoTs
              THEN [aware |-> TRUE, wall |-> NameWall(name), off |-> PST]
              ELSE [aware |-> TRUE, wall |-> FromMtime(c.mtime).wall, off |-> PST]
         ELSE IF c.created.kind = "aware"
              THEN [aware |-> TRUE, wall |-> c.created.wall, off |-> c.created.off]
              ELSE [aware |-> FALSE, wall |-> c.created.wall, off |-> 0]

(* ----------------------- unprocessed-file resolver ---------------------- *)

\* the iteration with "<" in place of "<=" in the timestamp check
IsUnprocessedStrictlyOlder(name, dir, arch, latest) ==
    /\ name # SENTINEL
    /\ name \notin arch
    /\ \/ latest = NoTs
       \/ ~LenientTimestamp(name, dir[name]).aware
       \/ ~(Instant(LenientTimestamp(name, dir[name])) < latest)

\* one iteration of the loop of get_unprocessed_json_files: TRUE when the file
\* is appended to unprocessed_files. Ordering a naive datetime against the
\* aware database timestamp raises TypeError, which the loop catches: the file
\* is included.
IsUnprocessed(name, dir, arch, latest) ==
    /\ name # SENTINEL
    /\ name \notin arch
    /\ \/ latest = NoTs
       \/ ~LenientTimestamp(name, dir[name]).aware
       \/ ~(Instant(LenientTimestamp(name, dir[name])) <= latest)

RECURSIVE ResolveFrom(_, _, _, _)
ResolveFrom(files, dir, arch, latest) ==
    IF files = << >> THEN << >>
    ELSE IF IsUnprocessed(Head(files), dir, arch, latest)
         THEN <<Head(files)>> \o ResolveFrom(Tail(files), dir, arch, latest)
         ELSE ResolveFrom(Tail(files), dir, arch, latest)

get_unprocessed_json_files(dir, arch, latest) ==
    ResolveFrom(SortedGlob(DOMAIN dir), dir, arch, latest)

(* ------------------------------ requests -------------------------------- *)

Procs == 1..NProcs

Keys == { "550e8400-e29b-41d4-a716-446655440000",
          "123e4567-e89b-12d3-a456-426614174000",
          "not-a-uuid" }

\* uuid.UUID(key) does not raise
IsUuid(key) == key # "not-a-uuid"

\* the validation that checks the UUID format only
ValidateFormatOnly(key) == IsUuid(key)

validate_client_key(key) == IsUuid(key) /\ key \in VALID_CLIENT_KEYS

\* filenames a client may name in POST /api/ingest: the files in the data
\* directory, the early ones whether there or not, and a name without .json
RequestNames == WrittenNames \cup DOMAIN dataDir \cup {"notes.txt"}

EndsWithJson(name) == name \in AllNames

\* The locals of a request or batch run. file .. prior belong to the file in
\* hand: captured is captured_at, rows the rows_inserted counter, added the
\* number of rows the table really gained, prior the capture time under which
\* an earlier ingestion of the same file completed (NoTs: none did), present
\* the number of the file's keys in the table when POST /api/ingest arrived.
\* files_created, would_create and fields (the keys of the response object)
\* belong to the answer of /api/fetch, cleanup to its log: "done" after
\* "Cleaned up last_fetched.json", "failed" after "Failed to cleanup".
\* dbfiles are the files for which an execute_query of the request raised.
\* timestamp_data is the local of fetch_data: the time create_last_fetched_file
\* wrote into the sentinel (NoTs: None). page_number, all_extensions and
\* response are the locals of get_all_ai_extensions, requested the page
\* numbers make_marketplace_request was called with.
Idle ==
    [op |-> "idle", pc |-> "idle", status |-> "", dry |-> 0,
     latest |-> NoTs, found |-> << >>, to_process |-> << >>, queue |-> << >>,
     processed |-> 0, nfailed |-> 0, total |-> 0, failed |-> << >>,
     file |-> NoFile, captured |-> NoTs, items |-> << >>, idx |-> 0,
     rows |-> 0, added |-> 0, prior |-> NoTs, present |-> 0,
     files_created |-> << >>, would_create |-> << >>, fields |-> {},
     cleanup |-> "", dbfiles |-> {}, timestamp_data |-> NoTs,
     page_number |-> 0, all_extensions |-> << >>, requested |-> << >>,
     response |-> [code |-> 0, n |-> 0, total |-> NoTs, raises |-> "no"]]

\* the locals of the file in hand are dropped when the loop moves on
DropFile(rec) ==
    [rec EXCEPT !.file = NoFile, !.captured = NoTs, !.items = << >>, !.idx = 0,
                !.rows = 0, !.added = 0, !.prior = NoTs, !.present = 0]

\* the response of a request that ends before any file is handled
Respond(op, status) == [Idle EXCEPT !.op = op, !.pc = "done", !.status = status]

\* a request or a batch run starts in the first free slot; a slot is free
\* before its first operation and once its response is out
Free(p) == proc[p].pc \in {"idle", "done"}

CanStart(p) == Free(p) /\ opsLeft > 0 /\ \A q \in Procs : q < p => ~Free(q)

\* process_json_file_async from open() to the record list: [ok, captured, items]
OpenSnapshot(filename) ==
    IF ~Exists(filename) \/ dataDir[filename].json = "invalid"
       \/ ~StrictTimestamp(dataDir[filename]).ok
       \/ dataDir[filename].shape \notin {"items", "list"}
    THEN [ok |-> FALSE, captured |-> NoTs, items |-> << >>]
    ELSE [ok |-> TRUE,
          captured |-> Instant(StrictTimestamp(dataDir[filename]).dt),
          items |-> dataDir[filename].items]

\* the locals after one more execute_query of process_json_file_async on the
\* table t, which becomes t2; the file is opened before the first insert
AfterInsert(rec, o, t, t2) ==
    LET its == IF rec.pc = "open" THEN o.items ELSE rec.items
        cap == IF rec.pc = "open" THEN o.captured ELSE rec.captured
        i == IF rec.pc = "open" THEN 1 ELSE rec.idx
    IN [rec EXCEPT !.pc = "insert", !.items = its, !.captured = cap, !.idx = i + 1,
                   !.rows = @ + InsertRowcount(t, Row(its[i], cap)),
                   !.added = @ + BagCardinality(t2) - BagCardinality(t)]

\* what the database does to one execute_query: it runs the statement, or the
\* call raises (connection lost, statement failed)
DbOutcomes == {"ok", "down"}

\* the element the next execute_query of the step is for
RecordInHand(rec, o) ==
    IF rec.pc = "open" THEN o.items[1] ELSE rec.items[rec.idx]

\* the locals after an execute_query that raised: "except Exception" logs a
\* warning and the loop continues with the next element
AfterFailedInsert(rec, o) ==
    LET its == IF rec.pc = "open" THEN o.items ELSE rec.items
        cap == IF rec.pc = "open" THEN o.captured ELSE rec.captured
        i == IF rec.pc = "open" THEN 1 ELSE rec.idx
    IN [rec EXCEPT !.pc = "insert", !.items = its, !.captured = cap, !.idx = i + 1,
                   !.dbfiles = @ \cup {rec.file}]

\* the insert of the step executed without the conflict clause
TableAfterPlainInsert(rec, o, t) ==
    LET its == IF rec.pc = "open" THEN o.items ELSE rec.items
        cap == IF rec.pc = "open" THEN o.captured ELSE rec.captured
        i == IF rec.pc = "open" THEN 1 ELSE rec.idx
    IN t (+) SetToBag({Row(its[i], cap)})

\* the table after the insert the step executes
TableAfterInsert(rec, o, t) ==
    LET its == IF rec.pc = "open" THEN o.items ELSE rec.items
        cap == IF rec.pc = "open" THEN o.captured ELSE rec.captured
        i == IF rec.pc = "open" THEN 1 ELSE rec.idx
    IN InsertOnConflictDoNothing(t, Row(its[i], cap))

(* ------------------------- POST /api/ingest ----------------------------- *)

\* the number of keys (extension_id, captured) of the snapshot c that the
\* table t holds
KeysPresent(t, c, captured) ==
    Cardinality({k \in {<<c.items[i].extension_id, captured>> :
                            i \in {j \in 1..Len(c.items) : IsObject(c.items[j])}} :
                    KeyCount(t, k) > 0})

\* ingest_json_file up to the answer of check_timestamp_exists
IngestPrecheck(key, filename) ==
    IF ~validate_client_key(key) THEN Respond("ingest", "401")
    ELSE IF ~EndsWithJson(filename) THEN Respond("ingest", "400")
    ELSE IF ~Exists(filename) THEN Respond("ingest", "404")
    ELSE IF dataDir[filename].json = "invalid"
         THEN [Respond("ingest", "400") EXCEPT !.file = filename]
    ELSE IF ~StrictTimestamp(dataDir[filename]).ok
         THEN [Respond("ingest",
                       IF StrictTimestamp(dataDir[filename]).err = "ValueError"
                       THEN "400" ELSE "500") EXCEPT !.file = filename]
    ELSE LET captured == Instant(StrictTimestamp(dataDir[filename]).dt) IN
         IF check_timestamp_exists(table, captured)
         THEN [Respond("ingest", "already_exists") EXCEPT
                  !.file = filename, !.captured = captured,
                  !.prior = ingestLog[filename],
                  !.present = KeysPresent(table, dataDir[filename], captured)]
         ELSE [Idle EXCEPT !.op = "ingest", !.pc = "open", !.file = filename,
                  !.captured = captured, !.prior = ingestLog[filename],
                  !.present = KeysPresent(table, dataDir[filename], captured)]

IngestStart(p, key, filename) ==
    /\ CanStart(p)
    /\ opsLeft' = opsLeft - 1
    /\ proc' = [proc EXCEPT ![p] = IngestPrecheck(key, filename)]
    /\ ingestLog' =
          IF proc'[p].status = "already_exists"
          THEN [ingestLog EXCEPT ![filename] = proc'[p].captured]
          ELSE ingestLog
    /\ UNCHANGED <<dataDir, archive, table, now, prevFailed, crashedFiles, fetchLog>>

\* process_json_file_async, one execute_query a step; the step that follows the
\* pre-check opens the file first. After the last record: the success response.
\* db is what the database does to the execute_query of the step. An element
\* that is not an object raises AttributeError while params is built, and so
\* does ext.get in the warning of the except branch: the error leaves the loop
\* and comes back as ValueError("Error processing file"), HTTP 400.
IngestInsertDb(p, db) ==
    /\ proc[p].op = "ingest" /\ proc[p].pc \in {"open", "insert"}
    /\ LET rec == proc[p]
           o == OpenSnapshot(rec.file)
           opened == rec.pc = "insert" \/ o.ok
           empty == rec.pc = "open" /\ o.ok /\ o.items = << >>
       IN
       IF ~opened
       THEN /\ proc' = [proc EXCEPT ![p] = [rec EXCEPT !.pc = "done", !.status = "400"]]
            /\ UNCHANGED <<table, ingestLog>>
       ELSE IF empty
       THEN /\ proc' = [proc EXCEPT ![p] =
                  [rec EXCEPT !.pc = "done", !.status = "success",
                              !.captured = o.captured]]
            /\ ingestLog' = [ingestLog EXCEPT ![rec.file] = o.captured]
            /\ UNCHANGED table
       ELSE IF ~IsObject(RecordInHand(rec, o))
       THEN /\ proc' = [proc EXCEPT ![p] =
                  [rec EXCEPT !.pc = "done", !.status = "400",
                              !.captured = IF rec.pc = "open" THEN o.captured ELSE @,
                              !.items = << >>, !.idx = 0]]
            /\ UNCHANGED <<table, ingestLog>>
       ELSE /\ table' = IF db = "ok" THEN TableAfterInsert(rec, o, table) ELSE table
            /\ LET nxt == IF db = "ok" THEN AfterInsert(rec, o, table, table')
                          ELSE AfterFailedInsert(rec, o) IN
               /\ proc' = [proc EXCEPT ![p] =
                     IF nxt.idx > Len(nxt.items)
                     THEN [nxt EXCEPT !.pc = "done", !.status = "success",
                                      !.items = << >>, !.idx = 0]
                     ELSE nxt]
               /\ ingestLog' =
                     IF nxt.idx > Len(nxt.items)
                     THEN [ingestLog EXCEPT ![rec.file] = nxt.captured]
                     ELSE ingestLog
    /\ UNCHANGED <<dataDir, archive, now, opsLeft, prevFailed, crashedFiles, fetchLog>>

\* the same with a database that runs every statement
IngestInsert(p) == IngestInsertDb(p, "ok")

(* ------------------------- GET /api/auto-sync --------------------------- *)

\* "Update status based on results": the summary returned after the loop
Summarize(rec) ==
    [rec EXCEPT !.pc = "done",
                !.status = IF rec.nfailed > 0
                           THEN IF rec.processed > 0 THEN "partial" ELSE "error"
                           ELSE "success"]

\* the loop goes on with the next file, or ends with the summary
NextFile(rec) ==
    IF Len(rec.queue) <= 1
    THEN Summarize(DropFile([rec EXCEPT !.queue = << >>]))
    ELSE DropFile([rec EXCEPT !.pc = "file", !.queue = Tail(rec.queue)])

\* failed_files.append({"filename": ..., "error": ...}); files_failed += 1; continue
FailFile(rec, err) ==
    NextFile([rec EXCEPT !.failed = Append(@, [filename |-> Head(rec.queue), error |-> err]),
                         !.nfailed = @ + 1])

\* "already exists, skipping": continue
SkipFile(rec) == NextFile(rec)

\* files_processed += 1; total_records += records_inserted
CountFile(rec, n) ==
    NextFile([rec EXCEPT !.processed = @ + 1, !.total = @ + n])

\* the branch taken when an empty list is answered as a failed cycle
AfterDiscoverEmptyIsError(rec, unprocessed) ==
    IF unprocessed = << >>
    THEN [rec EXCEPT !.pc = "done", !.status = "error", !.found = unprocessed]
    ELSE IF rec.dry = 1
         THEN [rec EXCEPT !.pc = "done", !.status = "success", !.found = unprocessed,
                          !.to_process = unprocessed]
         ELSE [rec EXCEPT !.pc = "file", !.status = "success", !.found = unprocessed,
                          !.queue = unprocessed]

\* the branch taken when the dryrun flag is not looked at
AfterDiscoverNoDryRun(rec, unprocessed) ==
    IF unprocessed = << >>
    THEN [rec EXCEPT !.pc = "done", !.status = "success", !.found = unprocessed]
    ELSE [rec EXCEPT !.pc = "file", !.status = "success", !.found = unprocessed,
                     !.queue = unprocessed]

\* the branch taken once the resolver has answered
AfterDiscover(rec, unprocessed) ==
    IF unprocessed = << >>
    THEN [rec EXCEPT !.pc = "done", !.status = "success", !.found = unprocessed]
    ELSE IF rec.dry = 1
         THEN [rec EXCEPT !.pc = "done", !.status = "success", !.found = unprocessed,
                          !.to_process = unprocessed]
         ELSE [rec EXCEPT !.pc = "file", !.status = "success", !.found = unprocessed,
                          !.queue = unprocessed]

\* the files the last completed cycle reported in failed_files
FailedAfter(rec) ==
    IF rec.pc = "done" /\ rec.dry = 0 /\ rec.found # << >>
    THEN {rec.failed[i].filename : i \in 1..Len(rec.failed)}
    ELSE prevFailed

\* auto_sync_files up to the early returns: the key, the latest database
\* timestamp, the resolver. The directory scan reads no table and the query no
\* file, so the two are taken in one step.
SyncStart(p, key, dryrun) ==
    /\ CanStart(p)
    /\ opsLeft' = opsLeft - 1
    /\ proc' = [proc EXCEPT ![p] =
          IF ~validate_client_key(key) THEN Respond("sync", "401")
          ELSE AfterDiscover(
                  [Idle EXCEPT !.op = "sync", !.dry = dryrun,
                               !.latest = get_latest_db_timestamp(table)],
                  get_unprocessed_json_files(dataDir, archive,
                                             get_latest_db_timestamp(table)))]
    /\ UNCHANGED <<dataDir, archive, table, now, prevFailed, crashedFiles, ingestLog, fetchLog>>

\* one iteration of the loop up to the answer of check_timestamp_exists
SyncPrecheck(rec) ==
    LET f == Head(rec.queue) IN
    IF ~Exists(f) THEN FailFile(rec, "File not found")
    ELSE IF dataDir[f].json = "invalid" THEN FailFile(rec, "JSONDecodeError")
    ELSE IF ~StrictTimestamp(dataDir[f]).ok
         THEN FailFile(rec, "Could not parse timestamp from created_at field")
    ELSE LET captured == Instant(StrictTimestamp(dataDir[f]).dt) IN
         IF check_timestamp_exists(table, captured)
         THEN SkipFile(rec)
         ELSE [rec EXCEPT !.pc = "open", !.file = f, !.captured = captured,
                          !.prior = ingestLog[f]]

\* TRUE when the iteration ends in "already exists, skipping"
SyncSkips(f) ==
    /\ Exists(f) /\ dataDir[f].json # "invalid" /\ StrictTimestamp(dataDir[f]).ok
    /\ check_timestamp_exists(table, Instant(StrictTimestamp(dataDir[f]).dt))

SyncFile(p) ==
    /\ proc[p].op = "sync" /\ proc[p].pc = "file"
    /\ proc' = [proc EXCEPT ![p] = SyncPrecheck(@)]
    /\ ingestLog' =
          IF SyncSkips(Head(proc[p].queue))
          THEN [ingestLog EXCEPT ![Head(proc[p].queue)] =
                   Instant(StrictTimestamp(dataDir[Head(proc[p].queue)]).dt)]
          ELSE ingestLog
    /\ prevFailed' = FailedAfter(proc'[p])
    /\ UNCHANGED <<dataDir, archive, table, now, opsLeft, crashedFiles, fetchLog>>

\* process_json_file_async inside the loop, one execute_query a step; db and
\* the element that is not an object as in IngestInsertDb: the ValueError is
\* caught by the loop, which appends to failed_files
SyncInsertDb(p, db) ==
    /\ proc[p].op = "sync" /\ proc[p].pc \in {"open", "insert"}
    /\ LET rec == proc[p]
           o == OpenSnapshot(rec.file)
           opened == rec.pc = "insert" \/ o.ok
           empty == rec.pc = "open" /\ o.ok /\ o.items = << >>
       IN
       IF ~opened
       THEN /\ proc' = [proc EXCEPT ![p] = FailFile(rec, "Error processing file")]
            /\ UNCHANGED <<table, ingestLog>>
       ELSE IF empty
       THEN /\ proc' = [proc EXCEPT ![p] = CountFile(rec, 0)]
            /\ ingestLog' = [ingestLog EXCEPT ![rec.file] = o.captured]
            /\ UNCHANGED table
       ELSE IF ~IsObject(RecordInHand(rec, o))
       THEN /\ proc' = [proc EXCEPT ![p] = FailFile(rec, "Error processing file")]
            /\ UNCHANGED <<table, ingestLog>>
       ELSE /\ table' = IF db = "ok" THEN TableAfterInsert(rec, o, table) ELSE table
            /\ LET nxt == IF db = "ok" THEN AfterInsert(rec, o, table, table')
                          ELSE AfterFailedInsert(rec, o) IN
               /\ proc' = [proc EXCEPT ![p] =
                     IF nxt.idx > Len(nxt.items) THEN CountFile(nxt, nxt.rows)
                     ELSE nxt]
               /\ ingestLog' =
                     IF nxt.idx > Len(nxt.items)
                     THEN [ingestLog EXCEPT ![rec.file] = nxt.captured]
                     ELSE ingestLog
    /\ prevFailed' = FailedAfter(proc'[p])
    /\ UNCHANGED <<dataDir, archive, now, opsLeft, crashedFiles, fetchLog>>

\* the same with a database that runs every statement
SyncInsert(p) == SyncInsertDb(p, "ok")

(* ---------------------- standalone batch run (ingest.py) ---------------- *)

Min(a, b) == IF a < b THEN a ELSE b

\* the rows of one batch, each inserted with ON CONFLICT DO NOTHING
RECURSIVE InsertBatch(_, _, _)
InsertBatch(t, exts, captured) ==
    IF exts = << >> THEN t
    ELSE InsertBatch(InsertOnConflictDoNothing(t, Row(Head(exts), captured)),
                     Tail(exts), captured)

\* ingest.py process_json_file up to its first batch: [ok, captured, items];
\* not ok is "return 0"; t is the clock reading
OpenBatchSnapshot(filename, t) ==
    IF ~Exists(filename) \/ dataDir[filename].json = "invalid"
       \/ ~BatchTimestamp(dataDir[filename], t).ok
       \/ dataDir[filename].shape \notin {"items", "list"}
    THEN [ok |-> FALSE, captured |-> NoTs, items |-> << >>]
    ELSE [ok |-> TRUE,
          captured |-> Instant(BatchTimestamp(dataDir[filename], t).dt),
          items |-> dataDir[filename].items]

\* rows_inserted += 1 after every cur.execute that did not raise
BatchRowsCounted(exts) == Len(exts)

\* TRUE when process_json_file reads the clock for the file's timestamp
ReadsClock(f) ==
    /\ Exists(f) /\ dataDir[f].json = "ok" /\ dataDir[f].shape # "list"
    /\ dataDir[f].created.kind \in {"missing", "garbage"}

\* main(): ensure_directories, sorted(glob), connect
BatchStart(p) ==
    /\ CanStart(p)
    /\ opsLeft' = opsLeft - 1
    /\ LET json_files == SortedGlob(DOMAIN dataDir) IN
       proc' = [proc EXCEPT ![p] =
          IF json_files = << >> THEN Respond("batch", "done")
          ELSE [Idle EXCEPT !.op = "batch", !.pc = "file", !.queue = json_files]]
    /\ UNCHANGED <<dataDir, archive, table, now, prevFailed, crashedFiles, ingestLog, fetchLog>>

\* process_json_file: the file is opened when its first batch starts (idx = 0);
\* every step executes and commits one batch of BATCH_SIZE records. The clock
\* has moved on to t when the timestamp fallback reads it.
BatchProcess(p) ==
    /\ proc[p].op = "batch" /\ proc[p].pc = "file"
    /\ \E t \in now..MaxTime :
       LET f == Head(proc[p].queue)
           first == proc[p].idx = 0
           o == IF first THEN OpenBatchSnapshot(f, t)
                ELSE [ok |-> TRUE, captured |-> proc[p].captured, items |-> proc[p].items]
           from == proc[p].idx + 1
           to == Min(proc[p].idx + BATCH_SIZE, Len(o.items))
           batch == SubSeq(o.items, from, to)
           last == to = Len(o.items)
       IN
       /\ t = now \/ (first /\ ReadsClock(f))
       /\ now' = t
       /\ table' = IF o.ok THEN InsertBatch(table, batch, o.captured) ELSE table
       /\ proc' = [proc EXCEPT ![p] =
             IF ~o.ok
             THEN [@ EXCEPT !.pc = "archive", !.file = f, !.status = "skipped",
                            !.prior = ingestLog[f]]
             ELSE [@ EXCEPT !.pc = IF last THEN "archive" ELSE "file",
                            !.file = f, !.captured = o.captured,
                            !.items = IF last THEN << >> ELSE o.items,
                            !.idx = IF last THEN 0 ELSE to,
                            !.rows = @ + BatchRowsCounted(batch),
                            !.added = @ + BagCardinality(table') - BagCardinality(table),
                            !.status = "ingested",
                            !.prior = IF first THEN ingestLog[f] ELSE @]]
       /\ ingestLog' =
             IF o.ok /\ last THEN [ingestLog EXCEPT ![f] = o.captured] ELSE ingestLog
    /\ UNCHANGED <<dataDir, archive, opsLeft, prevFailed, crashedFiles, fetchLog>>

\* total_rows += rows; processed_files += 1; archive_processed_file:
\* shutil.move into processed_json/, errors printed only
BatchArchive(p) ==
    /\ proc[p].op = "batch" /\ proc[p].pc = "archive"
    /\ LET f == Head(proc[p].queue) IN
       /\ dataDir' = IF Exists(f) THEN [n \in DOMAIN dataDir \ {f} |-> dataDir[n]]
                     ELSE dataDir
       /\ archive' = IF Exists(f) THEN archive \cup {f} ELSE archive
       /\ proc' = [proc EXCEPT ![p] =
             DropFile([@ EXCEPT !.processed = @ + 1, !.total = @ + proc[p].rows,
                                !.queue = Tail(@),
                                !.pc = IF Len(proc[p].queue) <= 1 THEN "done" ELSE "file",
                                !.status = IF Len(proc[p].queue) <= 1 THEN "done" ELSE ""])]
    /\ UNCHANGED <<table, now, opsLeft, prevFailed, crashedFiles, ingestLog, fetchLog>>

\* the batch run is killed; a file whose rows are committed and that is not
\* archived yet stays in the data directory
Crash(p) ==
    /\ proc[p].op = "batch" /\ proc[p].pc \in {"file", "archive"}
    /\ proc' = [proc EXCEPT ![p] = Respond("batch", "killed")]
    /\ crashedFiles' =
          IF proc[p].pc = "archive" /\ proc[p].status = "ingested"
          THEN crashedFiles \cup {proc[p].file} ELSE crashedFiles
    /\ UNCHANGED <<dataDir, archive, table, now, opsLeft, prevFailed, ingestLog, fetchLog>>

(* ----------------------------- GET /api/fetch --------------------------- *)

\* 21600 seconds, in hours
FETCH_INTERVAL == 6

\* the latest clock reading a fetch request may see
FetchHorizon == MaxTime + FETCH_INTERVAL

\* the readings the clock may show a request when it showed t0 last: the same,
\* one hour short of the interval later, the interval later
ClockFrom(t0) ==
    {t \in {t0, t0 + FETCH_INTERVAL - 1, t0 + FETCH_INTERVAL} : t <= FetchHorizon}

\* the endpoint as src/app/fetch_endpoint.py ("app") and as
\* src/fetch_endpoint.py ("root") define it
Deployments == {"app", "root"}

\* what the file system and the marketplace do to one request: every write
\* succeeds; mkdir raises; open() of the sentinel raises; json.dump into the
\* sentinel raises after open() truncated it; the marketplace answers with an
\* error status; the first data write raises and the fallback succeeds; both
\* data writes raise; both raise and so does unlink() of the sentinel
Outcomes ==
    {"ok", "mkdir", "sentinel_open", "sentinel_dump", "remote_down", "data", "fallback",
     "cleanup"}

\* the extensions get_all_ai_extensions returns
Marketplace(outcome) == IF outcome = "remote_down" THEN << >> ELSE <<Ext("e1", 14)>>

\* the two sample items of the fallback file
FallbackItems == <<Ext("1", 0), Ext("2", 0)>>

\* the snapshot create_dummy_data_file writes: created_at = datetime.now(PST)
FetchedFile(t, items) == File("ok", Aware(t + PST, PST), "items", items, t)

\* a sentinel left empty by a write that failed
TruncatedFile(t) == File("invalid", Missing, "other", << >>, t)

\* the name create_dummy_data_file writes the marketplace data to
DataFileName(v, t) == IF v = "app" THEN FetchedName(t) ELSE "data.json"

\* the check with a threshold one hour short of the interval
SentinelFreshShort(dir, t) ==
    /\ SENTINEL \in DOMAIN dir
    /\ dir[SENTINEL].json = "ok"
    /\ t - dir[SENTINEL].unix_timestamp < FETCH_INTERVAL - 1

\* last_fetched.json exists, loads, and records a time less than 6 hours ago
SentinelFresh(dir, t) ==
    /\ SENTINEL \in DOMAIN dir
    /\ dir[SENTINEL].json = "ok"
    /\ t - dir[SENTINEL].unix_timestamp < FETCH_INTERVAL

\* the directory with file f written as c
WithFile(dir, f, c) == [n \in DOMAIN dir \cup {f} |-> IF n = f THEN c ELSE dir[n]]

\* the directory without file f
WithoutFile(dir, f) == [n \in DOMAIN dir \ {f} |-> dir[n]]

\* create_dummy_data_file entered: the marketplace is asked
AsksMarketplace(outcome) ==
    outcome \in {"ok", "remote_down", "data", "fallback", "cleanup"}

\* the branch without last_fetched_path.unlink
DirAfterFetchNoCleanup(dir, v, t, outcome) ==
    CASE outcome \in {"mkdir", "sentinel_open"} -> dir
      [] outcome = "sentinel_dump" -> WithFile(dir, SENTINEL, TruncatedFile(t))
      [] outcome \in {"ok", "remote_down"} ->
            WithFile(WithFile(dir, SENTINEL, SentinelFile(t)),
                     DataFileName(v, t), FetchedFile(t, Marketplace(outcome)))
      [] outcome = "data" ->
            WithFile(WithFile(dir, SENTINEL, SentinelFile(t)),
                     "data.json", FetchedFile(t, FallbackItems))
      [] OTHER -> WithFile(dir, SENTINEL, SentinelFile(t))

\* the data directory after the non-dry-run branch of fetch_data
DirAfterFetch(dir, v, t, outcome) ==
    CASE outcome \in {"mkdir", "sentinel_open"} -> dir
      [] outcome = "cleanup" -> WithFile(dir, SENTINEL, SentinelFile(t))
      [] outcome = "sentinel_dump" -> WithFile(dir, SENTINEL, TruncatedFile(t))
      [] outcome \in {"ok", "remote_down"} ->
            WithFile(WithFile(dir, SENTINEL, SentinelFile(t)),
                     DataFileName(v, t), FetchedFile(t, Marketplace(outcome)))
      [] outcome = "data" ->
            WithFile(WithFile(dir, SENTINEL, SentinelFile(t)),
                     "data.json", FetchedFile(t, FallbackItems))
      [] OTHER -> WithoutFile(dir, SENTINEL)

ResponseBase == {"status", "dry_run", "timestamp", "files_created"}

\* response_data as fetch_data returns it, or the HTTPException
FetchResponse(dir, dryrun, t, outcome) ==
    IF dryrun = 1
    THEN [Respond("fetch", "success") EXCEPT
             !.dry = 1, !.would_create = <<SENTINEL, "data.json">>,
             !.fields = ResponseBase \cup {"message", "would_create"}]
    ELSE IF outcome = "mkdir" THEN Respond("fetch", "500")
    ELSE IF SentinelFresh(dir, t)
    THEN [Respond("fetch", "success") EXCEPT
             !.fields = ResponseBase \cup {"message", "last_fetched_data"}]
    ELSE IF outcome \in {"sentinel_open", "sentinel_dump"}
    THEN Respond("fetch", "500")
    ELSE IF outcome \in {"fallback", "cleanup"}
    THEN [Respond("fetch", "500") EXCEPT
             !.cleanup = IF outcome = "fallback" THEN "done" ELSE "failed"]
    ELSE [Respond("fetch", "success") EXCEPT
             !.files_created = <<SENTINEL, "data.json">>,
             !.fields = ResponseBase \cup {"message", "last_fetched_data"}]

\* the same with the dryrun parameter ignored
FetchWritesIgnoringDryRun(dir, dryrun, t, outcome) ==
    outcome # "mkdir" /\ ~SentinelFresh(dir, t)

\* TRUE when the request goes past the dry-run branch, mkdir and the 6-hour check
FetchWrites(dir, dryrun, t, outcome) ==
    dryrun # 1 /\ outcome # "mkdir" /\ ~SentinelFresh(dir, t)

\* fetch_data, the whole request; t is the clock reading it sees, v the copy
\* of the module that serves it, outcome what the file system and the
\* marketplace do to it
FetchData(p, key, dryrun) ==
    /\ CanStart(p)
    /\ opsLeft' = opsLeft - 1
    /\ IF ~validate_client_key(key)
       THEN /\ proc' = [proc EXCEPT ![p] = Respond("fetch", "401")]
            /\ UNCHANGED <<dataDir, now, fetchLog>>
       ELSE \E t \in ClockFrom(now), v \in Deployments, outcome \in Outcomes :
            /\ now' = t
            /\ proc' = [proc EXCEPT ![p] = FetchResponse(dataDir, dryrun, t, outcome)]
            /\ dataDir' = IF FetchWrites(dataDir, dryrun, t, outcome)
                          THEN DirAfterFetch(dataDir, v, t, outcome)
                          ELSE dataDir
            /\ fetchLog' =
                  IF FetchWrites(dataDir, dryrun, t, outcome) /\ AsksMarketplace(outcome)
                  THEN Append(fetchLog, [at |-> t, ok |-> proc'[p].status = "success"])
                  ELSE fetchLog
    /\ UNCHANGED <<archive, table, prevFailed, crashedFiles, ingestLog>>

(* ------------- GET /api/fetch, one file-system call a step -------------- *)

\* fetch_data up to the 6-hour check, as one of several server processes runs
\* it: the key, the dry-run branch, ensure_data_directory (mk tells whether
\* mkdir raises), the sentinel read at clock t
FetchBegin(p, key, dryrun) ==
    /\ CanStart(p)
    /\ opsLeft' = opsLeft - 1
    /\ \E t \in ClockFrom(now), mk \in {"ok", "mkdir"} :
          /\ now' = t
          /\ proc' = [proc EXCEPT ![p] =
                IF ~validate_client_key(key) THEN Respond("fetch", "401")
                ELSE IF dryrun = 1 \/ mk = "mkdir" \/ SentinelFresh(dataDir, t)
                     THEN FetchResponse(dataDir, dryrun, t, mk)
                     ELSE [Idle EXCEPT !.op = "fetch", !.pc = "sentinel"]]
    /\ UNCHANGED <<dataDir, archive, table, prevFailed, crashedFiles, ingestLog, fetchLog>>

\* create_last_fetched_file: open(..., 'w') and json.dump, which may raise; the
\* clock may have moved on since the check
FetchSentinel(p) ==
    /\ proc[p].op = "fetch" /\ proc[p].pc = "sentinel"
    /\ \E t \in {now, now + 1}, o \in {"ok", "sentinel_open", "sentinel_dump"} :
          /\ t <= FetchHorizon
          /\ now' = t
          /\ dataDir' =
                CASE o = "ok" -> WithFile(dataDir, SENTINEL, SentinelFile(t))
                  [] o = "sentinel_dump" -> WithFile(dataDir, SENTINEL, TruncatedFile(t))
                  [] OTHER -> dataDir
          /\ proc' = [proc EXCEPT ![p] =
                IF o = "ok" THEN [@ EXCEPT !.pc = "remote", !.timestamp_data = t]
                ELSE Respond("fetch", "500")]
    /\ UNCHANGED <<archive, table, opsLeft, prevFailed, crashedFiles, ingestLog, fetchLog>>

\* create_dummy_data_file and the rest of fetch_data: the marketplace is asked,
\* the data file written; when both writes raise, the sentinel that is in the
\* directory now is unlinked (or unlink raises) and the error goes out
FetchCreate(p) ==
    /\ proc[p].op = "fetch" /\ proc[p].pc = "remote"
    /\ \E v \in Deployments, o \in {"ok", "remote_down", "data", "fallback", "cleanup"} :
          /\ dataDir' =
                CASE o \in {"ok", "remote_down"} ->
                        WithFile(dataDir, DataFileName(v, now),
                                 FetchedFile(now, Marketplace(o)))
                  [] o = "data" -> WithFile(dataDir, "data.json", FetchedFile(now, FallbackItems))
                  [] o = "fallback" -> WithoutFile(dataDir, SENTINEL)
                  [] OTHER -> dataDir
          /\ proc' = [proc EXCEPT ![p] =
                IF o \in {"fallback", "cleanup"}
                THEN [Respond("fetch", "500") EXCEPT
                         !.cleanup = IF o = "fallback" THEN "done" ELSE "failed",
                         !.timestamp_data = proc[p].timestamp_data]
                ELSE [Respond("fetch", "success") EXCEPT
                         !.files_created = <<SENTINEL, "data.json">>,
                         !.fields = ResponseBase \cup {"message", "last_fetched_data"},
                         !.timestamp_data = proc[p].timestamp_data]]
          /\ fetchLog' = Append(fetchLog, [at |-> proc[p].timestamp_data,
                                           ok |-> o \notin {"fallback", "cleanup"}])
    /\ UNCHANGED <<archive, table, now, opsLeft, prevFailed, crashedFiles, ingestLog>>

(* ------------------ get_all_ai_extensions (marketplace) ----------------- *)

\* what one make_marketplace_request and the reading of its answer come to:
\* the HTTP status, the number of extensions extract_extensions finds, the
\* TotalCount of the metadata (NoTs: none given), and what raises: nothing,
\* the request or response.json(), the metadata with an error the inner
\* except catches (IndexError, KeyError, ValueError), the metadata with
\* another error (a value that int() or .get cannot take)
PageAnswer(c, k, t, e) == [code |-> c, n |-> k, total |-> t, raises |-> e]

\* the answers of the model: no answer at all, an error status, a page that
\* is not full, a full page with or without a TotalCount, a full page whose
\* metadata cannot be read
Responses ==
    {PageAnswer(0, 0, NoTs, "request"), PageAnswer(503, 0, NoTs, "no")}
       \cup {PageAnswer(200, k, t, "no") :
                k \in 0..(page_size - 1), t \in {NoTs, page_size + 1}}
       \cup {PageAnswer(200, page_size, t, "no") :
                t \in {NoTs, 0, page_size, page_size + 1}}
       \cup {PageAnswer(200, page_size, NoTs, e) : e \in {"metadata_caught", "metadata"}}

\* the records extract_extensions returns for a page: <<page, position>>
PageRecords(page, n) == [k \in 1..n |-> <<page, k>>]

\* all_extensions.extend(extensions) is reached
Extends(resp) == resp.raises # "request" /\ resp.code = 200

\* the loop without the TotalCount test
StopsIgnoringTotal(resp, count) ==
    \/ resp.raises = "request"
    \/ resp.code # 200
    \/ resp.n < page_size
    \/ resp.raises = "metadata"

\* the iteration ends the loop: break or return all_extensions; count is
\* len(all_extensions) after the page was added
Stops(resp, count) ==
    \/ resp.raises = "request"
    \/ resp.code # 200
    \/ resp.n < page_size
    \/ resp.raises = "metadata"
    \/ resp.raises = "no" /\ resp.total > 0 /\ count >= resp.total

\* get_all_ai_extensions is called
PagingStart(p) ==
    /\ CanStart(p)
    /\ opsLeft' = opsLeft - 1
    /\ proc' = [proc EXCEPT ![p] = [Idle EXCEPT !.op = "paging", !.pc = "page",
                                                !.page_number = 1]]
    /\ UNCHANGED <<dataDir, archive, table, now, prevFailed, crashedFiles, ingestLog,
                   fetchLog>>

\* one iteration of "while True"; after MaxPages pages the marketplace has no
\* further full page to give
GetPage(p) ==
    /\ proc[p].op = "paging" /\ proc[p].pc = "page"
    /\ \E resp \in Responses :
          LET all == IF Extends(resp)
                     THEN proc[p].all_extensions \o PageRecords(proc[p].page_number, resp.n)
                     ELSE proc[p].all_extensions
              stop == Stops(resp, Len(all))
          IN /\ proc[p].page_number < MaxPages \/ stop
             /\ proc' = [proc EXCEPT ![p] =
                   [@ EXCEPT !.response = resp,
                             !.requested = Append(@, proc[p].page_number),
                             !.all_extensions = all,
                             !.page_number = IF stop THEN @ ELSE @ + 1,
                             !.pc = IF stop THEN "done" ELSE "page",
                             !.status = IF stop THEN "returned" ELSE ""]]
    /\ UNCHANGED <<dataDir, archive, table, now, opsLeft, prevFailed, crashedFiles,
                   ingestLog, fetchLog>>

(* ------------------- GET /api/sync-status, /api/download ---------------- *)

\* a status check that files the snapshots it finds processed into the archive
SyncStatusMovingFiles(p, key, dryrun) ==
    /\ CanStart(p)
    /\ opsLeft' = opsLeft - 1
    /\ proc' = [proc EXCEPT ![p] =
          IF ~validate_client_key(key) THEN Respond("sync-status", "401")
          ELSE [Respond("sync-status", "success") EXCEPT
                   !.dry = dryrun,
                   !.latest = get_latest_db_timestamp(table),
                   !.found = get_unprocessed_json_files(dataDir, archive,
                                                        get_latest_db_timestamp(table))]]
    /\ archive' = IF validate_client_key(key)
                  THEN archive \cup (DOMAIN dataDir \ Range(proc'[p].found))
                  ELSE archive
    /\ UNCHANGED <<dataDir, table, now, prevFailed, crashedFiles, ingestLog, fetchLog>>

\* sync_status_check
SyncStatus(p, key, dryrun) ==
    /\ CanStart(p)
    /\ opsLeft' = opsLeft - 1
    /\ proc' = [proc EXCEPT ![p] =
          IF ~validate_client_key(key) THEN Respond("sync-status", "401")
          ELSE [Respond("sync-status", "success") EXCEPT
                   !.dry = dryrun,
                   !.latest = get_latest_db_timestamp(table),
                   !.found = get_unprocessed_json_files(dataDir, archive,
                                                        get_latest_db_timestamp(table))]]
    /\ UNCHANGED <<dataDir, archive, table, now, prevFailed, crashedFiles, ingestLog,
                   fetchLog>>

\* download_data_tar; tar tells whether ./data.tar exists
Download(p, key, tar) ==
    /\ CanStart(p)
    /\ opsLeft' = opsLeft - 1
    /\ proc' = [proc EXCEPT ![p] =
          IF ~validate_client_key(key) THEN Respond("download", "401")
          ELSE IF ~tar THEN Respond("download", "404")
          ELSE Respond("download", "200")]
    /\ UNCHANGED <<dataDir, archive, table, now, prevFailed, crashedFiles, ingestLog,
                   fetchLog>>

(* ------------------------------ first state ----------------------------- *)

\* the data directories that hold up to k of the files, each as written
DirectoriesOf(names, k) ==
    {[f \in S |-> Fixture(f)] : S \in {T \in SUBSET names : Cardinality(T) <= k}}

Directories(k) == DirectoriesOf(WrittenNames, k)

\* data.json is the one name written more than once: an earlier data.json may
\* already be in the archive
InitFrom(dirs, ops) ==
    /\ dataDir \in dirs
    /\ archive \in SUBSET ({"data.json"} \cap DOMAIN dataDir)
    /\ table = EmptyBag
    /\ now = NowStart
    /\ proc = [p \in Procs |-> Idle]
    /\ opsLeft = ops
    /\ prevFailed = {}
    /\ crashedFiles = {}
    /\ ingestLog = [f \in AllNames |-> NoTs]
    /\ fetchLog = << >>

InitWith(k, ops) == InitFrom(Directories(k), ops)

Next ==
    \/ \E p \in Procs :
          CanStart(p) /\ \E key \in Keys, f \in RequestNames : IngestStart(p, key, f)
    \/ \E p \in Procs : IngestInsert(p)
    \/ \E p \in Procs :
          CanStart(p) /\ \E key \in Keys, d \in {0, 1} : SyncStart(p, key, d)
    \/ \E p \in Procs : SyncFile(p)
    \/ \E p \in Procs : SyncInsert(p)
    \/ \E p \in Procs : BatchStart(p)
    \/ \E p \in Procs : BatchProcess(p)
    \/ \E p \in Procs : BatchArchive(p)
    \/ \E p \in Procs : Crash(p)

Init == InitWith(MaxFiles, MaxOps)

Spec == Init /\ [][Next]_vars

\* the same system started with one more file in the data directory
InitWide == InitWith(MaxFiles + 1, MaxOps)

SpecWide == InitWide /\ [][Next]_vars

\* POST /api/ingest requests alone, one more of them and one more file
InitRace == InitWith(MaxFiles + 1, MaxOps + 1)

NextRace ==
    \/ \E p \in Procs :
          CanStart(p) /\ \E key \in Keys, f \in RequestNames : IngestStart(p, key, f)
    \/ \E p \in Procs : IngestInsert(p)

SpecRace == InitRace /\ [][NextRace]_vars

\* the HTTP endpoints of the service, the acquisition path included
NextFetch ==
    \/ \E p \in Procs :
          CanStart(p) /\ \E key \in Keys, d \in {0, 1} : FetchData(p, key, d)
    \/ \E p \in Procs :
          CanStart(p) /\ \E key \in Keys, d \in {0, 1} : SyncStatus(p, key, d)
    \/ \E p \in Procs :
          CanStart(p) /\ \E key \in Keys, tar \in BOOLEAN : Download(p, key, tar)
    \/ \E p \in Procs :
          CanStart(p) /\ \E key \in Keys, f \in RequestNames : IngestStart(p, key, f)
    \/ \E p \in Procs : IngestInsert(p)
    \/ \E p \in Procs :
          CanStart(p) /\ \E key \in Keys, d \in {0, 1} : SyncStart(p, key, d)
    \/ \E p \in Procs : SyncFile(p)
    \/ \E p \in Procs : SyncInsert(p)

\* the files the acquisition path reads or replaces, and one snapshot
FetchNames == {"last_fetched.json", "data.json", "2025-02.json"}

InitFetch == InitFrom(DirectoriesOf(FetchNames, MaxFiles), MaxOps)

SpecFetch == InitFetch /\ [][NextFetch]_vars

\* the whole system over snapshots of the further shapes
InitShapes == InitFrom(DirectoriesOf(ShapeNames, MaxFiles + 1), MaxOps)

SpecShapes == InitShapes /\ [][Next]_vars

\* the HTTP ingestion paths over a database that may fail any single statement
NextFaults ==
    \/ \E p \in Procs :
          CanStart(p) /\ \E key \in Keys, f \in RequestNames : IngestStart(p, key, f)
    \/ \E p \in Procs, db \in DbOutcomes : IngestInsertDb(p, db)
    \/ \E p \in Procs :
          CanStart(p) /\ \E key \in Keys, d \in {0, 1} : SyncStart(p, key, d)
    \/ \E p \in Procs : SyncFile(p)
    \/ \E p \in Procs, db \in DbOutcomes : SyncInsertDb(p, db)

InitFaults == InitFrom(DirectoriesOf(FaultNames, MaxFiles + 1), MaxOps)

SpecFaults == InitFaults /\ [][NextFaults]_vars

\* POST /api/ingest and GET /api/auto-sync over snapshots that share one
\* capture time and part of their extensions
NextHttp ==
    \/ \E p \in Procs :
          CanStart(p) /\ \E key \in Keys, f \in RequestNames : IngestStart(p, key, f)
    \/ \E p \in Procs : IngestInsert(p)
    \/ \E p \in Procs :
          CanStart(p) /\ \E key \in Keys, d \in {0, 1} : SyncStart(p, key, d)
    \/ \E p \in Procs : SyncFile(p)
    \/ \E p \in Procs : SyncInsert(p)

HttpNames == {"2025-02.json", "2025-02b.json", "2025-05.json"}

InitHttp == InitFrom(DirectoriesOf(HttpNames, MaxFiles + 1), MaxOps)

SpecHttp == InitHttp /\ [][NextHttp]_vars

\* the three HTTP paths that read the data directory next to the batch run
NextFrame ==
    \/ \E p \in Procs :
          CanStart(p) /\ \E key \in Keys, d \in {0, 1} : SyncStatus(p, key, d)
    \/ \E p \in Procs :
          CanStart(p) /\ \E key \in Keys, f \in RequestNames : IngestStart(p, key, f)
    \/ \E p \in Procs : IngestInsert(p)
    \/ \E p \in Procs :
          CanStart(p) /\ \E key \in Keys, d \in {0, 1} : SyncStart(p, key, d)
    \/ \E p \in Procs : SyncFile(p)
    \/ \E p \in Procs : SyncInsert(p)
    \/ \E p \in Procs : BatchStart(p)
    \/ \E p \in Procs : BatchProcess(p)
    \/ \E p \in Procs : BatchArchive(p)

FrameNames == {"2025-02.json", "data.json", "last_fetched.json"}

InitFrame == InitFrom(DirectoriesOf(FrameNames, MaxFiles), MaxOps)

SpecFrame == InitFrame /\ [][NextFrame]_vars

\* the resolver as sync-status applies it, over directories of up to four
\* files of every kind, and POST /api/ingest to fill the table
NextResolve ==
    \/ \E p \in Procs :
          CanStart(p) /\ \E key \in Keys, d \in {0, 1} : SyncStatus(p, key, d)
    \/ \E p \in Procs :
          CanStart(p) /\ \E key \in Keys, f \in RequestNames : IngestStart(p, key, f)
    \/ \E p \in Procs : IngestInsert(p)

ResolveNames ==
    { "2025-02.json", "2025-03.json", "2025-04.json", "2025-06.json", "data.json",
      "last_fetched.json" }

InitResolve == InitFrom(DirectoriesOf(ResolveNames, MaxFiles + 3), MaxOps)

SpecResolve == InitResolve /\ [][NextResolve]_vars

\* the two ingestors over one snapshot whose created_at is any of: a reading
\* before, at and after the start of daylight saving time, with the offset
\* of PST, of PDT, of UTC, or without offset
StampWalls == {10, 21, 22, 23}

StampInputs ==
    {Aware(w, o) : w \in StampWalls, o \in {PST, PDT, 0}}
       \cup {Naive(w) : w \in StampWalls}

StampDirectories ==
    {[f \in {"2025-02.json"} |-> File("ok", c, "items", <<Ext("e1", 10)>>, 18)] :
        c \in StampInputs}

NextStamp ==
    \/ \E p \in Procs :
          CanStart(p) /\ \E key \in Keys, f \in RequestNames : IngestStart(p, key, f)
    \/ \E p \in Procs : IngestInsert(p)
    \/ \E p \in Procs : BatchStart(p)
    \/ \E p \in Procs : BatchProcess(p)
    \/ \E p \in Procs : BatchArchive(p)

InitStamp == InitFrom(StampDirectories, MaxOps)

SpecStamp == InitStamp /\ [][NextStamp]_vars

\* /api/fetch served by more than one process over the same data directory
NextFetchSteps ==
    \/ \E p \in Procs :
          CanStart(p) /\ \E key \in Keys, d \in {0, 1} : FetchBegin(p, key, d)
    \/ \E p \in Procs : FetchSentinel(p)
    \/ \E p \in Procs : FetchCreate(p)

InitFetchSteps == InitFrom(DirectoriesOf(FetchNames, MaxFiles), MaxOps)

SpecFetchSteps == InitFetchSteps /\ [][NextFetchSteps]_vars

\* acquisition, the batch run that archives, and the status check, started
\* with an empty archive directory
NextArchive ==
    \/ \E p \in Procs :
          CanStart(p) /\ \E key \in Keys, d \in {0, 1} : FetchData(p, key, d)
    \/ \E p \in Procs :
          CanStart(p) /\ \E key \in Keys, d \in {0, 1} : SyncStatus(p, key, d)
    \/ \E p \in Procs : BatchStart(p)
    \/ \E p \in Procs : BatchProcess(p)
    \/ \E p \in Procs : BatchArchive(p)

InitArchive ==
    /\ InitFrom(DirectoriesOf(FetchNames, MaxFiles), MaxOps)
    /\ archive = {}

SpecArchive == InitArchive /\ [][NextArchive]_vars

\* the marketplace client alone, called by concurrent requests
NextPaging ==
    \/ \E p \in Procs : PagingStart(p)
    \/ \E p \in Procs : GetPage(p)

InitPaging == InitFrom(DirectoriesOf({}, MaxFiles), MaxOps)

SpecPaging == InitPaging /\ [][NextPaging]_vars

(* ======================================================================= *)
(*                                the claims                               *)
(* ======================================================================= *)

\* the snapshot of this name can be ingested over HTTP: valid JSON, a
\* created_at the strict path accepts, a record list
Ingestible(c) ==
    c.json = "ok" /\ StrictTimestamp(c).ok /\ c.shape \in {"items", "list"}

\* the keys (extension_id, captured_at) a snapshot has at capture time cap
KeysOf(c, cap) ==
    {<<c.items[i].extension_id, cap>> : i \in {j \in 1..Len(c.items) : IsObject(c.items[j])}}

\* C1: after any interleaving of POST /api/ingest, GET /api/auto-sync and the
\* standalone batch run, no two rows of the stats table share
\* (extension_id, captured_at).
C1_Uniqueness ==
    \A r \in BagToSet(table) : KeyCount(table, Key(r)) = 1

\* a batch run and an HTTP ingestion have both written the same snapshot and
\* the batch run had inserts absorbed by the conflict clause
C1_Witness ==
    \E p, q \in Procs :
        /\ proc[p].op = "batch" /\ proc[p].pc = "archive" /\ proc[p].status = "ingested"
        /\ proc[p].added < proc[p].rows
        /\ proc[q].op = "ingest" /\ proc[q].status = "success"
        /\ proc[q].file = proc[p].file /\ proc[q].rows > 0

\* an ingestion of the file in hand has run to its end: POST /api/ingest has
\* answered success or already_exists, the batch run has left process_json_file
Completed(rec) ==
    \/ rec.op = "ingest" /\ rec.pc = "done" /\ rec.status \in {"success", "already_exists"}
    \/ rec.op = "batch" /\ rec.pc = "archive" /\ rec.status = "ingested"

\* C2: ingesting the same snapshot file twice in a row is idempotent: the second
\* ingestion (one that started after an ingestion of the same file had run to
\* its end) returns 0 rows inserted and the capture timestamp of the first, and
\* adds no row to the stats table.
C2_Idempotent ==
    \A p \in Procs :
        (Completed(proc[p]) /\ proc[p].prior # NoTs) =>
            /\ proc[p].rows = 0
            /\ proc[p].captured = proc[p].prior
            /\ proc[p].added = 0

\* the timestamps latestDbTimestamp is drawn from; NoTs is null
LatestValues == {NoTs} \cup (16..MaxTime)

\* the try block of the resolver's timestamp check raises for the file: the
\* lenient timestamp carries no offset and cannot be ordered against the
\* database timestamp
ParsingFails(f) == ~LenientTimestamp(f, dataDir[f]).aware

\* parsedTimestamp(f) > latestDbTimestamp
ParsedAfter(f, latest) ==
    /\ LenientTimestamp(f, dataDir[f]).aware
    /\ Instant(LenientTimestamp(f, dataDir[f])) > latest

SyncSummary(rec) ==
    rec.op = "sync" /\ rec.pc = "done" /\ rec.dry = 0 /\ rec.found # << >>

\* the filenames failed_files lists
FailedNames(rec) == {rec.failed[i].filename : i \in 1..Len(rec.failed)}

\* C4: partial-failure accounting: the summary of a non-dry-run auto-sync over
\* N discovered files of which K failed, 0 < K < N, has status partial,
\* files_processed + files_failed = N, and failed_files lists exactly K
\* filenames of the discovered ones, each with a non-empty error detail.
C4_PartialAccounting ==
    \A p \in Procs :
        (/\ SyncSummary(proc[p])
         /\ 0 < proc[p].nfailed
         /\ proc[p].nfailed < Len(proc[p].found)) =>
            /\ proc[p].status = "partial"
            /\ proc[p].processed + proc[p].nfailed = Len(proc[p].found)
            /\ Len(proc[p].failed) = proc[p].nfailed
            /\ Cardinality(FailedNames(proc[p])) = proc[p].nfailed
            /\ FailedNames(proc[p]) \subseteq Range(proc[p].found)
            /\ \A i \in 1..Len(proc[p].failed) : proc[p].failed[i].error # ""

\* C5: the summary status of a non-dry-run auto-sync is success exactly when no
\* file failed, partial exactly when at least one file was processed and at
\* least one failed, error exactly when no file was processed and every
\* discovered file failed.
C5_StatusClasses ==
    \A p \in Procs :
        SyncSummary(proc[p]) =>
            /\ proc[p].status = "success" <=> proc[p].nfailed = 0
            /\ proc[p].status = "partial" <=>
                  (proc[p].processed > 0 /\ proc[p].nfailed > 0)
            /\ proc[p].status = "error" <=>
                  (proc[p].processed = 0 /\ proc[p].nfailed = Len(proc[p].found))

\* the step starts an auto-sync cycle in slot p and the resolver has answered
SyncDiscovers(p) ==
    /\ CanStart(p) /\ opsLeft' = opsLeft - 1
    /\ proc'[p].op = "sync" /\ proc'[p].status # "401"

\* C6: a file that failed in the last completed auto-sync cycle, is still in
\* the data directory and has not been ingested, is in the resolver's answer
\* when the next cycle starts.
C6_FailedFilesReappear ==
    [][\A p \in Procs :
          SyncDiscovers(p) =>
             \A f \in prevFailed :
                (f \in DOMAIN dataDir /\ ingestLog[f] = NoTs) =>
                    f \in Range(proc'[p].found)]_vars

\* C7: a snapshot whose rows the batch run committed before it was killed,
\* archiving undone, is not in the resolver's answer in any later cycle.
C7_CrashSafetyNet ==
    [][\A p \in Procs :
          SyncDiscovers(p) =>
             \A f \in crashedFiles : f \notin Range(proc'[p].found)]_vars

\* two POST /api/ingest requests for the same ingestible snapshot have both
\* been answered
BothAnswered(p, q) ==
    /\ p # q
    /\ proc[p].op = "ingest" /\ proc[q].op = "ingest"
    /\ proc[p].pc = "done" /\ proc[q].pc = "done"
    /\ proc[p].file # NoFile /\ proc[p].file = proc[q].file
    /\ Exists(proc[p].file) /\ Ingestible(dataDir[proc[p].file])

WithoutError(rec) == rec.status \in {"success", "already_exists"}

C9_DryRun ==
    /\ [][\A p \in Procs :
            (/\ SyncDiscovers(p) /\ proc'[p].dry = 1
             /\ get_unprocessed_json_files(dataDir, archive,
                                           get_latest_db_timestamp(table)) # << >>) =>
                /\ proc'[p].pc = "done"
                /\ proc'[p].to_process =
                      get_unprocessed_json_files(dataDir, archive,
                                                 get_latest_db_timestamp(table))
                /\ proc'[p].processed = 0 /\ proc'[p].total = 0
                /\ table' = table /\ dataDir' = dataDir /\ archive' = archive]_vars
    /\ [](\A p \in Procs :
            (proc[p].op = "sync" /\ proc[p].dry = 1) =>
                proc[p].pc = "done" /\ proc[p].processed = 0 /\ proc[p].total = 0)

\* a dry run has reported a file against a table that already holds rows
C9_Witness ==
    \E p \in Procs :
        /\ proc[p].op = "sync" /\ proc[p].dry = 1 /\ proc[p].pc = "done"
        /\ proc[p].to_process # << >>
        /\ table # EmptyBag

\* C10: a snapshot whose created_at is missing or unparsable is ingested by no
\* path: no path goes through process_json_file for it, and every row of the
\* stats table carries the timestamp the strict path gives a snapshot that
\* holds the row's extension, never a substitute such as the current time.
C10_StrictTimestamp ==
    /\ \A p \in Procs :
          (/\ proc[p].file \in DOMAIN dataDir
           /\ dataDir[proc[p].file].created.kind \in {"missing", "garbage"}) =>
              ~Completed(proc[p])
    /\ \A r \in BagToSet(table) :
          \E f \in SnapshotNames :
             /\ Ingestible(Fixture(f))
             /\ Key(r) \in KeysOf(Fixture(f), Instant(StrictTimestamp(Fixture(f)).dt))

\* the keys that are not a well-formed UUID, or are one outside the allow-list
BadKeys == {"123e4567-e89b-12d3-a456-426614174000", "not-a-uuid"}

\* the step is a request of some key-protected endpoint arriving with the key
ArrivesWith(p, key) ==
    /\ CanStart(p) /\ opsLeft' = opsLeft - 1
    /\ \/ proc'[p].op = "fetch" /\ \E d \in {0, 1} : FetchData(p, key, d)
       \/ proc'[p].op = "sync-status" /\ \E d \in {0, 1} : SyncStatus(p, key, d)
       \/ proc'[p].op = "sync" /\ \E d \in {0, 1} : SyncStart(p, key, d)
       \/ proc'[p].op = "ingest" /\ \E f \in RequestNames : IngestStart(p, key, f)
       \/ proc'[p].op = "download" /\ \E tar \in BOOLEAN : Download(p, key, tar)

\* C11: a request to fetch, sync-status, auto-sync, ingest or download whose
\* key is not a well-formed UUID or is outside the allow-list is answered 401
\* in the step it arrives; the answer carries nothing read from a file or from
\* the table, and the data directory (sentinel included), the archive, the
\* stats table and the log of remote fetches are as before.
C11_Unauthorized ==
    [][\A p \in Procs, key \in BadKeys :
          \/ /\ proc'[p].status = "401" /\ proc'[p].pc = "done"
             /\ proc'[p] = Respond(proc'[p].op, "401")
             /\ UNCHANGED <<dataDir, archive, table, fetchLog, now>>
          \/ ~ArrivesWith(p, key)]_vars

\* a fetch request with a bad key has been answered 401 while the data
\* directory holds a file and the table a row
C11_Witness ==
    /\ \E p \in Procs : proc[p].status = "401" /\ proc[p].op = "fetch"
    /\ DOMAIN dataDir # {}
    /\ table # EmptyBag

\* C12: the 'rows inserted' count an ingestion returns equals the number of
\* rows it added to the stats table (an insert that hits the key conflict,
\* through a duplicate record of the same file included, counts 0), for
\* process_json_file_async and for ingest.py process_json_file alike.
C12_RowsInserted ==
    \A p \in Procs : Completed(proc[p]) => proc[p].rows = proc[p].added

\* POST /api/ingest has answered for a snapshot of three records of which
\* exactly one key was in the stats table when the request arrived
PartlyNew(rec) ==
    /\ rec.op = "ingest" /\ rec.pc = "done"
    /\ rec.status \in {"success", "already_exists"}
    /\ Exists(rec.file) /\ Len(dataDir[rec.file].items) = 3
    /\ rec.present = 1

\* C13: ingesting a snapshot of 3 records, exactly one of whose keys
\* (extension_id, captured_at) is already in the stats table and two of which
\* are new, inserts the two new rows and returns rowsInserted = 2.
C13_PartlyNewSnapshot ==
    \A p \in Procs :
        PartlyNew(proc[p]) =>
            /\ proc[p].status = "success"
            /\ proc[p].rows = 2
            /\ proc[p].added = 2

\* the request or batch run has finished with the file in hand, which is on
\* disk as valid JSON of the given shape
HandledShape(rec, shape) ==
    /\ \/ rec.op = "ingest" /\ rec.pc = "done"
       \/ rec.op = "batch" /\ rec.pc = "archive"
    /\ Exists(rec.file)
    /\ dataDir[rec.file].json = "ok" /\ dataDir[rec.file].shape = shape

\* C14: the ingestor accepts a snapshot whose content is a bare top-level list
\* of extension records: the file is ingested, its records inserted, exactly
\* as a file of the nested data.items shape would be.
C14_BareList ==
    \A p \in Procs :
        HandledShape(proc[p], "list") =>
            /\ Completed(proc[p])
            /\ \A i \in 1..Len(dataDir[proc[p].file].items) :
                  KeyCount(table, <<dataDir[proc[p].file].items[i].extension_id,
                                    proc[p].captured>>) > 0

\* a non-dry-run auto-sync has answered and lists every file of its work list that is on
\* disk as valid JSON of the given shape among the failed files
SyncReports(rec, shape) ==
    (rec.op = "sync" /\ rec.pc = "done" /\ rec.dry = 0) =>
        \A i \in 1..Len(rec.to_process) :
            (/\ Exists(rec.to_process[i])
             /\ dataDir[rec.to_process[i]].json = "ok"
             /\ dataDir[rec.to_process[i]].shape = shape)
            => rec.to_process[i] \in FailedNames(rec)

\* C15: a snapshot that is neither an object with data.items nor a top-level
\* list makes ingestion fail with a schema error that is reported to the
\* caller (an error response of /api/ingest, a failed_files entry of
\* auto-sync, a failure of the batch run; never a silent zero-row success),
\* and no row is inserted for the file.
C15_SchemaError ==
    \A p \in Procs :
        /\ HandledShape(proc[p], "other") =>
              /\ proc[p].op = "ingest" /\ proc[p].status \in {"400", "500"}
              /\ proc[p].added = 0
        /\ SyncReports(proc[p], "other")

\* the keys of the allow-list
GoodKeys == {k \in Keys : validate_client_key(k)}

\* the step is a fetch request with a valid key and the given dryrun value
FetchArrives(p, dryrun) ==
    /\ CanStart(p) /\ opsLeft' = opsLeft - 1
    /\ \E key \in GoodKeys : FetchData(p, key, dryrun)

\* the remote fetches of the log that completed with a success response are
\* pairwise at least the interval apart
FetchesApart(log) ==
    \A i, j \in 1..Len(log) :
        (i < j /\ log[i].ok /\ log[j].ok) => log[j].at - log[i].at >= FETCH_INTERVAL

\* C16: minimum inter-fetch interval: a non-dry-run fetch request that finds a
\* readable sentinel whose recorded time is less than 6 hours in the past asks
\* the marketplace nothing and writes no file (sentinel and snapshots as
\* before); so in any sequence of fetch requests two remote fetches that both
\* completed successfully are at least 6 hours apart.
C16_MinInterval ==
    [][/\ \A p \in Procs :
            (SentinelFresh(dataDir, now') /\ FetchArrives(p, 0)) =>
                /\ UNCHANGED <<dataDir, fetchLog>>
                /\ proc'[p].files_created = << >>
       /\ FetchesApart(fetchLog')]_vars

\* a fetch request was answered from a sentinel less than 6 hours old, written
\* by the one remote fetch of the log
C16_Witness ==
    /\ Len(fetchLog) = 1 /\ fetchLog[1].ok
    /\ SentinelFresh(dataDir, now)
    /\ now > fetchLog[1].at
    /\ \E p \in Procs :
          /\ proc[p].op = "fetch" /\ proc[p].status = "success" /\ proc[p].dry = 0
          /\ proc[p].files_created = << >>

\* the step is a fetch request whose sentinel write succeeded and whose data
\* write, fallback included, failed
DataWriteFails(p) ==
    /\ CanStart(p) /\ opsLeft' = opsLeft - 1
    /\ proc'[p].op = "fetch" /\ proc'[p].status = "500"
    /\ fetchLog' # fetchLog

\* C17 as claimed: all-or-nothing fetch: if a non-dry-run fetch writes the
\* sentinel and the subsequent snapshot data write then fails, the sentinel is
\* deleted before the request returns its error, so after any failed fetch no
\* sentinel written by that attempt remains and the next fetch request is not
\* suppressed by the 6-hour check.
C17_AllOrNothingAsClaimed ==
    [][\A p \in Procs :
          DataWriteFails(p) =>
             /\ SENTINEL \notin DOMAIN dataDir'
             /\ ~SentinelFresh(dataDir', now')]_vars

\* C17: if a non-dry-run fetch writes the sentinel and the subsequent data
\* write then fails, the request tries to delete the sentinel before it
\* returns its error. When the deletion succeeds no sentinel remains and the
\* next fetch request is not suppressed by the 6-hour check; when the deletion
\* itself raises, the sentinel of the failed attempt remains.
C17_AllOrNothing ==
    [][\A p \in Procs :
          DataWriteFails(p) =>
             /\ proc'[p].cleanup \in {"done", "failed"}
             /\ proc'[p].cleanup = "done" =>
                   /\ SENTINEL \notin DOMAIN dataDir'
                   /\ ~SentinelFresh(dataDir', now')
             /\ proc'[p].cleanup = "failed" =>
                   /\ SENTINEL \in DOMAIN dataDir'
                   /\ dataDir'[SENTINEL] = SentinelFile(now')]_vars

\* a fetch failed at its data write and the next one, less than 6 hours
\* later, fetched again
C17_Witness ==
    /\ Len(fetchLog) = 2
    /\ ~fetchLog[1].ok /\ fetchLog[2].ok
    /\ fetchLog[2].at - fetchLog[1].at < FETCH_INTERVAL

\* C18: a fetch request with a valid key and dryrun=1 returns status success
\* with dry_run true, files_created empty and would_create listing exactly 2
\* paths; it creates, modifies or deletes no file (sentinel included) and
\* asks the marketplace nothing, whatever the state of the data directory.
C18_DryRunFetch ==
    [][\A p \in Procs :
          FetchArrives(p, 1) =>
             /\ proc'[p].status = "success" /\ proc'[p].dry = 1
             /\ proc'[p].files_created = << >>
             /\ Len(proc'[p].would_create) = 2
             /\ Cardinality(Range(proc'[p].would_create)) = 2
             /\ UNCHANGED <<dataDir, archive, fetchLog>>]_vars

\* a dry-run fetch was answered at a time at which a real one would have
\* fetched: the sentinel is missing, unreadable or at least 6 hours old
C18_Witness ==
    /\ ~SentinelFresh(dataDir, now)
    /\ \E p \in Procs :
          /\ proc[p].op = "fetch" /\ proc[p].dry = 1 /\ proc[p].status = "success"
          /\ Len(proc[p].would_create) = 2

\* C19: a non-dry-run fetch request with a valid key that finds no sentinel
\* returns success with exactly 2 entries in files_created, and every path it
\* lists (last_fetched.json and data.json) exists on disk when it returns.
C19_FilesCreated ==
    [][\A p \in Procs :
          (/\ SENTINEL \notin DOMAIN dataDir
           /\ FetchArrives(p, 0)
           /\ proc'[p].status = "success") =>
             /\ Len(proc'[p].files_created) = 2
             /\ \A i \in 1..Len(proc'[p].files_created) :
                   proc'[p].files_created[i] \in DOMAIN dataDir']_vars

\* the answer of a non-dry-run fetch that created files
CreatedFiles(rec) ==
    /\ rec.op = "fetch" /\ rec.pc = "done" /\ rec.status = "success"
    /\ rec.dry = 0 /\ rec.files_created # << >>

\* C20: every successful non-dry-run fetch response that created files
\* carries last_fetched_data and data_file_preview together with status,
\* dry_run, timestamp, files_created and message.
C20_ResponseFields ==
    \A p \in Procs :
        CreatedFiles(proc[p]) =>
            {"status", "dry_run", "timestamp", "files_created", "message",
             "last_fetched_data", "data_file_preview"} \subseteq proc[p].fields

\* the step is a fetch request arriving in slot p, whatever its key
FetchStep(p) ==
    /\ CanStart(p) /\ opsLeft' = opsLeft - 1
    /\ proc'[p].op = "fetch"

\* C21: a snapshot file is written once: no fetch request, in any sequence of
\* fetches (successful, fallback or repeated), overwrites a snapshot file that
\* is already in the data directory; every *.json file other than the sentinel
\* is there after the request with the content it had before.
C21_WriteOnce ==
    [][\A p \in Procs :
          FetchStep(p) =>
             \A f \in DOMAIN dataDir \ {SENTINEL} :
                f \in DOMAIN dataDir' /\ dataDir'[f] = dataDir[f]]_vars

\* C22: a file is moved to the archive directory only after it was ingested:
\* the batch run archives no file whose processing failed (invalid JSON,
\* unexpected shape, processing error) and no file that is not a snapshot;
\* every file that enters the archive is a snapshot that the archiving run
\* has left process_json_file for with its records inserted.
C22_ArchiveAfterIngest ==
    [][\A f \in archive' \ archive :
          /\ f # SENTINEL
          /\ \E p \in Procs :
                /\ proc[p].op = "batch" /\ proc[p].file = f
                /\ proc[p].status = "ingested"]_vars

\* C23: a database failure during a sync or ingest operation reaches the
\* caller as a failure of that operation: no file for which an execute_query
\* raised is reported as processed; POST /api/ingest does not answer success
\* for it and auto-sync lists it in failed_files.
C23_DbFailurePropagates ==
    \A p \in Procs :
        /\ (proc[p].op = "ingest" /\ proc[p].pc = "done" /\ proc[p].dbfiles # {}) =>
              proc[p].status \notin {"success", "already_exists"}
        /\ (proc[p].op = "sync" /\ proc[p].pc = "done") =>
              proc[p].dbfiles \subseteq FailedNames(proc[p])

\* C24: the pipeline only ever adds rows to the stats table: in every step of
\* any sequence of ingest, auto-sync and standalone-ingest operations (and of
\* fetch and sync-status requests, which run no statement that writes), each
\* row of the table is still there afterwards, as many times and with the same
\* column values.
C24_AppendOnly ==
    [][table \sqsubseteq table']_vars

\* a snapshot with two records of one key has gone through the batch run: the
\* second insert met the row of the first and the table holds the first
C24_Witness ==
    \E p \in Procs :
        /\ proc[p].op = "batch" /\ proc[p].pc = "archive" /\ proc[p].status = "ingested"
        /\ proc[p].added < proc[p].rows
        /\ \E r \in BagToSet(table) :
              r.extension_id = "e1" /\ r.captured_at = 18 /\ r.install_count = 11

\* the file is a snapshot the strict path reads a capture timestamp from, and
\* the stats table holds a row of that timestamp
TimestampHeld(f) ==
    /\ Exists(f) /\ dataDir[f].json = "ok" /\ StrictTimestamp(dataDir[f]).ok
    /\ \E r \in BagToSet(table) :
          r.captured_at = Instant(StrictTimestamp(dataDir[f]).dt)

\* the step is a POST /api/ingest request with a valid key for the file
IngestArrives(p, f) ==
    /\ CanStart(p) /\ opsLeft' = opsLeft - 1
    /\ proc'[p].op = "ingest"
    /\ \E key \in GoodKeys : IngestStart(p, key, f)

\* C25: idempotency pre-check: when the stats table holds a row whose
\* captured_at equals the snapshot's capture timestamp, POST /api/ingest for
\* the snapshot answers already_exists with zero rows inserted in the step it
\* arrives, and the iteration of auto-sync for the snapshot skips it; neither
\* issues an insert and the table is as before, even if the rows came from a
\* different file or cover only some of the snapshot's records.
C25_PreCheck ==
    [][/\ \A p \in Procs : \A f \in DOMAIN dataDir :
             (TimestampHeld(f) /\ IngestArrives(p, f)) =>
                /\ proc'[p].pc = "done" /\ proc'[p].status = "already_exists"
                /\ proc'[p].rows = 0 /\ proc'[p].added = 0
                /\ table' = table
       /\ \A p \in Procs :
             (/\ proc[p].op = "sync" /\ proc[p].pc = "file"
              /\ TimestampHeld(Head(proc[p].queue))
              /\ SyncFile(p)) =>
                /\ proc'[p].pc \in {"file", "done"}
                /\ proc'[p].queue = Tail(proc[p].queue)
                /\ proc'[p].total = proc[p].total
                /\ proc'[p].processed = proc[p].processed
                /\ table' = table]_vars

\* POST /api/ingest answered already_exists for a three-record snapshot never
\* ingested before, one of whose keys another file had put into the table
C25_Witness ==
    \E p \in Procs :
        /\ proc[p].op = "ingest" /\ proc[p].status = "already_exists"
        /\ proc[p].prior = NoTs
        /\ proc[p].present = 1
        /\ Exists(proc[p].file) /\ Len(dataDir[proc[p].file].items) = 3

\* C26: the idempotency pre-check is only an optimisation: for every starting
\* table and every snapshot file, the table after an ingestion with the
\* pre-check equals the table after the same ingestion without it. Whenever
\* POST /api/ingest for an ingestible snapshot arrives while no other request
\* or run is under way and is answered by the pre-check, the table it leaves
\* is the one the inserts with ON CONFLICT DO NOTHING of all the snapshot's
\* records would have left.
C26_PreCheckIsOptimisation ==
    [][\A p \in Procs : \A f \in DOMAIN dataDir :
          (/\ Ingestible(dataDir[f])
           /\ \A q \in Procs : Free(q)
           /\ IngestArrives(p, f)
           /\ proc'[p].pc = "done") =>
             table' = InsertBatch(table, dataDir[f].items,
                                  Instant(StrictTimestamp(dataDir[f]).dt))]_vars

\* POST /api/ingest has answered for an ingestible snapshot that went past
\* the pre-check
WentThrough(rec) ==
    /\ rec.op = "ingest" /\ rec.pc = "done" /\ rec.status # "already_exists"
    /\ Exists(rec.file) /\ Ingestible(dataDir[rec.file])

\* C27: a failure while inserting one record (a record that is not a
\* well-formed object included) is caught and skipped: ingestion of the file
\* does not abort, the request answers success, and every other record of the
\* file is attempted; when no execute_query raised, every well-formed record
\* of the file has its row in the table.
C27_RecordFailureSkipped ==
    \A p \in Procs :
        WentThrough(proc[p]) =>
            /\ proc[p].status = "success"
            /\ proc[p].dbfiles = {} =>
                  \A k \in KeysOf(dataDir[proc[p].file], proc[p].captured) :
                     KeyCount(table, k) > 0

\* every element of the snapshot's record list is an object
WellFormed(c) == \A i \in 1..Len(c.items) : IsObject(c.items[i])

\* C28: in a non-dry-run auto-sync a discovered file that is gone or whose
\* ingestion raises produces one failed_files entry (filename and error
\* text), in discovery order, and the loop goes on: the request returns a
\* summary, and a bad file does not prevent a later file of the cycle from
\* being ingested: when no execute_query raised, every sound snapshot that
\* was discovered after a failed file has its rows in the table.
C28_BadFileDoesNotStopCycle ==
    \A p \in Procs :
        SyncSummary(proc[p]) =>
            /\ proc[p].status \in {"success", "partial", "error"}
            /\ Len(proc[p].failed) = proc[p].nfailed
            /\ \A i \in 1..Len(proc[p].failed) : proc[p].failed[i].error # ""
            /\ \E pick \in [1..Len(proc[p].failed) -> 1..Len(proc[p].found)] :
                  /\ \A i \in 1..Len(proc[p].failed) :
                        proc[p].found[pick[i]] = proc[p].failed[i].filename
                  /\ \A i, j \in 1..Len(proc[p].failed) : i < j => pick[i] < pick[j]
            /\ \A i, j \in 1..Len(proc[p].found) :
                  (/\ i < j
                   /\ proc[p].found[i] \in FailedNames(proc[p])
                   /\ proc[p].dbfiles = {}
                   /\ Exists(proc[p].found[j])
                   /\ Ingestible(dataDir[proc[p].found[j]])
                   /\ WellFormed(dataDir[proc[p].found[j]])) =>
                      \A k \in KeysOf(dataDir[proc[p].found[j]],
                                      Instant(StrictTimestamp(dataDir[proc[p].found[j]]).dt)) :
                         KeyCount(table, k) > 0

\* the step belongs to auto-sync, POST /api/ingest or sync-status: it is the
\* request in slot p that moves
HttpStep(p) ==
    /\ proc'[p] # proc[p]
    /\ proc'[p].op \in {"sync", "ingest", "sync-status"}

\* C29: the HTTP-triggered paths (auto-sync, ingest, sync-status) never move,
\* rename, delete or write a file of the data directory or of the archive
\* directory: every step of theirs leaves both as they were, and whenever
\* either changes it is the batch run archiving a file.
C29_HttpPathsLeaveFiles ==
    [][/\ \A p \in Procs : HttpStep(p) => UNCHANGED <<dataDir, archive>>
       /\ (dataDir' # dataDir \/ archive' # archive) =>
             \E p \in Procs : proc[p].op = "batch" /\ proc[p].pc = "archive"
                              /\ proc'[p] # proc[p]]_vars

\* an auto-sync has ingested a snapshot and answered, and the batch run has
\* since moved that snapshot to the archive
C29_Witness ==
    \E p \in Procs :
        /\ proc[p].op = "sync" /\ proc[p].pc = "done" /\ proc[p].processed = 1
        /\ proc[p].total > 0
        /\ proc[p].found[1] \in archive

\* the filenames of the list are in strictly ascending lexicographic order
Ascending(files) ==
    \A i, j \in 1..Len(files) :
        i < j => LexLess(Codes(files[i]), Codes(files[j]))

\* C30: the resolver returns filenames in ascending lexicographic order of
\* filename, whatever the latest database timestamp; when the database is
\* empty (latest timestamp None) it returns every *.json file of the data
\* directory that is neither the sentinel nor in the archive, regardless of
\* the files' contents or timestamps; and sync-status answers with that list.
C30_ResolverOrder ==
    /\ \A latest \in LatestValues :
          Ascending(get_unprocessed_json_files(dataDir, archive, latest))
    /\ Range(get_unprocessed_json_files(dataDir, archive, NoTs))
          = (DOMAIN dataDir \ {SENTINEL}) \ archive
    /\ \A p \in Procs :
          (proc[p].op = "sync-status" /\ proc[p].status = "success") =>
              /\ Ascending(proc[p].found)
              /\ proc[p].latest = NoTs =>
                    Range(proc[p].found) = (DOMAIN dataDir \ {SENTINEL}) \ archive

\* sync-status has answered over an empty table with three files in its list
\* (one of them without created_at, one not valid JSON) while the data
\* directory holds the sentinel as well
C30_Witness ==
    \E p \in Procs :
        /\ proc[p].op = "sync-status" /\ proc[p].status = "success"
        /\ proc[p].latest = NoTs
        /\ proc[p].found = <<"2025-02.json", "2025-04.json", "data.json">>
        /\ SENTINEL \in DOMAIN dataDir

\* C31: the sentinel last_fetched.json is never treated as a snapshot: for
\* every database timestamp and archive content it is absent from the
\* resolver output, auto-sync never has it in hand, and the batch run neither
\* has it in hand nor moves it to the archive.
C31_SentinelNeverSnapshot ==
    /\ \A latest \in LatestValues :
          SENTINEL \notin Range(get_unprocessed_json_files(dataDir, archive, latest))
    /\ \A p \in Procs :
          proc[p].op \in {"sync", "batch"} =>
              /\ SENTINEL \notin Range(proc[p].queue)
              /\ proc[p].file # SENTINEL
    /\ SENTINEL \notin archive

\* the created_at of the snapshot is present and datetime.fromisoformat reads it
CreatedParsable(c) ==
    c.json = "ok" /\ c.shape # "list" /\ c.created.kind \in {"aware", "naive"}

\* the resolver has run its timestamp check on the file for this answer
Scanned(rec, f) ==
    /\ rec.op = "sync-status" /\ rec.status = "success" /\ rec.latest # NoTs
    /\ f \in DOMAIN dataDir /\ f # SENTINEL /\ f \notin archive

\* C32: the lenient timestamp extraction of the scanner, for every file it is
\* applied to, returns the parsed created_at when present and parsable,
\* otherwise the timestamp encoded in the filename, otherwise the file's
\* last-modified time, and the result is always timezone-aware.
C32_LenientTimestamp ==
    \A p \in Procs : \A f \in AllNames :
        Scanned(proc[p], f) =>
            LET c == dataDir[f]
                r == LenientTimestamp(f, c)
            IN /\ r.aware
               /\ CreatedParsable(c) =>
                     (r.wall = c.created.wall /\ r.off = c.created.off)
               /\ (~CreatedParsable(c) /\ NameWall(f) # NoTs) =>
                     (r.wall = NameWall(f) /\ r.off = PST)
               /\ (~CreatedParsable(c) /\ NameWall(f) = NoTs) =>
                     (r.wall = FromMtime(c.mtime).wall /\ r.off = PST)

\* the request or the batch run has parsed the created_at of the file in hand
Stamped(rec) ==
    /\ rec.op \in {"ingest", "batch"} /\ rec.captured # NoTs
    /\ Exists(rec.file) /\ dataDir[rec.file].created.kind \in {"aware", "naive"}

\* the datetime parse_timestamp_from_json returned for it
StampOf(rec) ==
    IF rec.op = "ingest" THEN StrictTimestamp(dataDir[rec.file]).dt
    ELSE BatchTimestamp(dataDir[rec.file], now).dt

\* C33: timestamp normalisation in the strict path: a created_at with an
\* explicit UTC offset comes back in the canonical zone and denotes the same
\* absolute instant as the input; a created_at without offset keeps its
\* wall-clock reading and is tagged with the canonical zone; captured_at is
\* the instant of the result.
C33_Normalisation ==
    \A p \in Procs :
        Stamped(proc[p]) =>
            LET c == dataDir[proc[p].file].created
                dt == StampOf(proc[p])
            IN /\ dt.off \in {PST, PDT}
               /\ proc[p].captured = Instant(dt)
               /\ c.kind = "aware" =>
                     /\ Instant(dt) = c.wall - c.off
                     /\ dt.off = PacificOffsetAt(c.wall - c.off)
               /\ c.kind = "naive" => dt.wall = c.wall

\* POST /api/ingest has ingested a snapshot stamped 22:00+00:00: the datetime
\* was converted to 14:00-08:00 and captured_at is the same instant
C33_Witness ==
    \E p \in Procs :
        /\ Stamped(proc[p]) /\ proc[p].op = "ingest" /\ proc[p].status = "success"
        /\ dataDir[proc[p].file].created = Aware(22, 0)
        /\ StampOf(proc[p]).wall = 14
        /\ proc[p].captured = 22

\* C34: when the resolver returns no unprocessed file, auto-sync (dry-run or
\* not) answers in the same step with the zero-work summary: status success,
\* files_found 0, files_processed 0, files_failed 0, total_records 0, no
\* failed_files and no files_to_process; no snapshot file is taken in hand,
\* and the step leaves the stats table and both directories as they were.
C34_ZeroWork ==
    /\ [][\A p \in Procs :
            (/\ SyncDiscovers(p)
             /\ get_unprocessed_json_files(dataDir, archive,
                                           get_latest_db_timestamp(table)) = << >>) =>
                /\ proc'[p].pc = "done" /\ proc'[p].status = "success"
                /\ Len(proc'[p].found) = 0
                /\ proc'[p].processed = 0 /\ proc'[p].nfailed = 0
                /\ proc'[p].total = 0
                /\ proc'[p].failed = << >> /\ proc'[p].to_process = << >>
                /\ proc'[p].queue = << >> /\ proc'[p].file = NoFile
                /\ table' = table /\ dataDir' = dataDir /\ archive' = archive]_vars
    /\ [](\A p \in Procs :
            (proc[p].op = "sync" /\ proc[p].status # "401" /\ proc[p].found = << >>) =>
                /\ proc[p].pc = "done" /\ proc[p].status = "success"
                /\ proc[p].processed = 0 /\ proc[p].nfailed = 0 /\ proc[p].total = 0
                /\ proc[p].file = NoFile /\ proc[p].rows = 0)

\* auto-sync (not a dry run) has answered with the zero-work summary over a
\* data directory that holds a snapshot: its rows are in the table already
C34_Witness ==
    \E p \in Procs :
        /\ proc[p].op = "sync" /\ proc[p].pc = "done" /\ proc[p].status = "success"
        /\ proc[p].dry = 0 /\ proc[p].found = << >>
        /\ proc[p].latest # NoTs
        /\ DOMAIN dataDir # {}

\* every record of the snapshot c, stamped cap, has a row in the stats table
AllRowsPresent(c, cap) ==
    \A k \in KeysOf(c, cap) : KeyCount(table, k) > 0

\* the auto-sync cycle of rec left the file out because of its timestamp
ExcludedByTimestamp(rec, f) ==
    /\ rec.op = "sync" /\ rec.status # "401" /\ rec.latest # NoTs
    /\ f \in DOMAIN dataDir /\ f # SENTINEL /\ f \notin archive
    /\ f \notin Range(rec.found)

\* C35: whenever a snapshot is treated as processed - left out by the
\* resolver's timestamp check, or answered "already exists" by the pre-check
\* of /api/ingest - every record of that snapshot has a row in the stats
\* table, also after ingestions that lost single inserts part-way through;
\* looked at when no request is running.
C35_ProcessedIsComplete ==
    (\A q \in Procs : Free(q)) =>
    \A p \in Procs :
        /\ (proc[p].op = "ingest" /\ proc[p].status = "already_exists") =>
              AllRowsPresent(dataDir[proc[p].file], proc[p].captured)
        /\ \A f \in AllNames :
              (ExcludedByTimestamp(proc[p], f) /\ Ingestible(dataDir[f])) =>
                  AllRowsPresent(dataDir[f], Instant(StrictTimestamp(dataDir[f]).dt))

\* no remote fetch follows within the interval a remote fetch whose request
\* completed successfully; at is the time the request wrote to the sentinel
NoFetchAfterSuccess(log) ==
    \A i, j \in 1..Len(log) :
        (i < j /\ log[i].ok) => log[j].at - log[i].at >= FETCH_INTERVAL

\* the step is the failure cleanup of the request in slot p: it unlinks the
\* sentinel
CleansUp(p) ==
    /\ proc[p].op = "fetch" /\ proc[p].pc = "remote"
    /\ proc'[p].cleanup = "done"
    /\ SENTINEL \in DOMAIN dataDir /\ SENTINEL \notin DOMAIN dataDir'

\* the sentinel in the directory is the one the request in slot q wrote, and
\* that request has completed successfully
SentinelOf(q) ==
    /\ proc[q].op = "fetch" /\ proc[q].pc = "done" /\ proc[q].status = "success"
    /\ proc[q].files_created # << >>
    /\ SENTINEL \in DOMAIN dataDir /\ dataDir[SENTINEL].json = "ok"
    /\ dataDir[SENTINEL].unix_timestamp = proc[q].timestamp_data

\* C36: when non-dry-run fetch requests with valid keys interleave, at most one
\* of them performs a remote fetch within a 6-hour window, and the failure
\* cleanup of one request never deletes a sentinel written by another request
\* that completed successfully.
C36_ConcurrentFetch ==
    [][/\ NoFetchAfterSuccess(fetchLog')
       /\ \A p, q \in Procs :
             (p # q /\ CleansUp(p) /\ proc[p].timestamp_data < proc[q].timestamp_data) =>
                 ~SentinelOf(q)]_vars

\* the snapshot files the step wrote: new in the data directory, or there with
\* another content than before
WrittenBy(dir, dir2) ==
    {f \in DOMAIN dir2 \ {SENTINEL} : f \notin DOMAIN dir \/ dir2[f] # dir[f]}

\* C37: archive names are never reused: every snapshot written by a fetch gets
\* a filename that is not present in the archive directory, so the resolver
\* does not leave the newly written, never-ingested snapshot out because an
\* archived file has its name (on an empty table it lists the snapshot).
C37_ArchiveNamesNotReused ==
    [][\A p \in Procs :
          FetchStep(p) =>
             \A f \in WrittenBy(dataDir, dataDir') :
                /\ f \notin archive'
                /\ f \in Range(get_unprocessed_json_files(dataDir', archive', NoTs))]_vars

\* rows_inserted of process_json_file_async run alone over the records exts on
\* the table t: the sum of the rowcounts execute_query returns
RECURSIVE AsyncRows(_, _, _)
AsyncRows(t, exts, captured) ==
    IF exts = << >> THEN 0
    ELSE InsertRowcount(t, Row(Head(exts), captured))
            + AsyncRows(InsertOnConflictDoNothing(t, Row(Head(exts), captured)),
                        Tail(exts), captured)

\* process_json_file_async run alone on the file over the table t: the table
\* it leaves and the number it returns; raised when it ends in ValueError
AsyncOutcome(t, filename) ==
    LET o == OpenSnapshot(filename) IN
    IF ~o.ok THEN [raised |-> TRUE, table |-> t, rows |-> 0]
    ELSE [raised |-> FALSE, table |-> InsertBatch(t, o.items, o.captured),
          rows |-> AsyncRows(t, o.items, o.captured)]

\* the step is process_json_file of the batch run in slot p, from open() to
\* its return
BatchIngests(p) ==
    /\ proc[p].op = "batch" /\ proc[p].pc = "file" /\ proc[p].idx = 0
    /\ proc'[p].op = "batch" /\ proc'[p].pc = "archive"

\* C38: the two ingestors agree: for every snapshot file and every starting
\* table, process_json_file of the batch run leaves the rows in the stats
\* table that process_json_file_async leaves from the same table, and returns
\* the number of rows inserted that process_json_file_async returns.
C38_IngestorsAgree ==
    [][\A p \in Procs :
          BatchIngests(p) =>
             LET a == AsyncOutcome(table, Head(proc[p].queue)) IN
             /\ table' = a.table
             /\ ~a.raised => proc'[p].rows = a.rows]_vars

\* the step is one iteration of the paging loop of slot p
PageStep(p) ==
    /\ proc[p].op = "paging" /\ proc[p].pc = "page"
    /\ proc'[p] # proc[p]

\* the page of the iteration was received and read: status 200, no error
\* before the extensions were extracted
PageRead(r) == r.raises # "request" /\ r.code = 200

\* C39: get_all_ai_extensions stops and returns the records accumulated so
\* far as soon as a page answers with a non-200 status, yields no extensions,
\* yields fewer than page_size extensions, raises an error, or the
\* accumulated count reaches a positive reported TotalCount; otherwise it goes
\* on with the next page; it requests pages 1, 2, 3, ... without skipping or
\* repeating a page; and it ends by returning, never by raising.
C39_PagingStops ==
    [][\A p \in Procs :
          PageStep(p) =>
             LET r == proc'[p].response
                 before == proc[p].all_extensions
                 page == proc[p].page_number
                 with == before \o PageRecords(page, r.n)
                 after == proc'[p].all_extensions
                 ended == proc'[p].pc = "done" /\ proc'[p].status = "returned"
             IN /\ proc'[p].requested = Append(proc[p].requested, page)
                /\ \A i \in 1..Len(proc'[p].requested) : proc'[p].requested[i] = i
                /\ ~PageRead(r) => (ended /\ after = before)
                /\ PageRead(r) => after = with
                /\ (PageRead(r) /\ r.n < page_size) => ended
                /\ (PageRead(r) /\ r.raises = "metadata") => ended
                /\ (PageRead(r) /\ r.raises = "no" /\ r.total > 0 /\ Len(with) >= r.total)
                      => ended
                /\ (/\ PageRead(r) /\ r.n = page_size /\ r.raises # "metadata"
                    /\ ~(r.raises = "no" /\ r.total > 0 /\ Len(with) >= r.total)) =>
                      (proc'[p].pc = "page" /\ proc'[p].page_number = page + 1)
                /\ proc'[p].pc \in {"page", "done"}
                /\ proc'[p].pc = "done" => proc'[p].status = "returned"]_vars

\* the loop has returned after two full pages because the accumulated count
\* reached the TotalCount the second page reported
C39_Witness ==
    \E p \in Procs :
        /\ proc[p].op = "paging" /\ proc[p].pc = "done" /\ proc[p].status = "returned"
        /\ proc[p].requested = <<1, 2>>
        /\ proc[p].response.n = page_size /\ proc[p].response.raises = "no"
        /\ proc[p].response.total = page_size + 1
        /\ Len(proc[p].all_extensions) = 2 * page_size

====
